---- MODULE Spec2Model ----
(***************************************************************************)
(* State-machine model of the porcentagem-api-core services: the users,    *)
(* categories, transactions and bank-account services, the controllers in  *)
(* front of them and the relational store (Prisma) behind them.            *)
(*                                                                         *)
(* The source tree carries two behaviours of UsersService:                 *)
(*   "head"   src/src/users/users.service.ts:1-226: stores the password    *)
(*            as given, findOneByEmail selects the password                *)
(*   "part1"  src/unnamed/part_001: hashes the password, has               *)
(*            validateCredentials (src/src/users/users.service.ts:228-381  *)
(*            is the same code for the methods it has)                     *)
(* The variable rev fixes, for a whole behaviour, which one is deployed.   *)
(***************************************************************************)
EXTENDS Integers, Sequences, FiniteSets, TLC

VARIABLES
  scope,        \* the service the clients of this behaviour call
  rev,          \* deployed revision of UsersService
  users,        \* table users: id -> [name, email, password]
  categories,   \* table categories: id -> [name, color, description]
  bankAccounts, \* table bank_accounts: id -> [userId, name, apiToken, ...]
  transactions, \* table transactions: id -> [bankAccountId, date, amount, ...]
  issued,       \* ids handed out so far, per table (uuids are never reused)
  pending,      \* the call whose existence check returned a row and whose
                \* update or delete is still to be issued
  clock,        \* the store's now() at the last write; 0 in behaviours that
                \* do not tell instants apart
  stamps,       \* per table: id -> [createdAt, updatedAt]
  resp          \* the last completed call: service, operation, arguments, outcome

vars == <<scope, rev, users, categories, bankAccounts, transactions, issued,
          pending, clock, stamps, resp>>

(***************************************************************************)
(* Bounds and input domains                                                *)
(***************************************************************************)
\* ids one table hands out
MaxIds == 2
\* the last instant of a behaviour that tells instants apart
MaxClock == 4
\* the largest skip of a request for a page of a long users list
MaxSkip == 24

Revs   == {"head", "part1"}
Emails == {"e1", "e2"}
Names  == {"n1", "n2"}
Plain  == {"p1", "p2"}
Colors == {"c1", "c2"}
Descriptions == {"d1"}
ApiTokens == {"t1"}
AccountStatuses == {"active"}
ConnectionStatuses == {"connected"}
IsoDates == {"2025-01-01T00:00:00.000Z", "2025-02-01T00:00:00.000Z"}
Amounts == {10}
Types == {"income", "expense"}
Ids    == 1..MaxIds
\* an id no row ever has (a well-formed uuid that was never issued)
GhostId == MaxIds + 1
\* ids of the rows the database holds when the server starts
SeedIds == {1, 2}

(***************************************************************************)
(* Outcomes of a call                                                      *)
(***************************************************************************)
Ok                 == [kind |-> "ok", msg |-> ""]
NotFound(m)        == [kind |-> "NotFound", msg |-> m]
Unprocessable(m)   == [kind |-> "Unprocessable", msg |-> m]
Unauthorized(m)    == [kind |-> "Unauthorized", msg |-> m]
Internal(m)        == [kind |-> "Internal", msg |-> m]
\* an error of the persistence layer that nothing caught
Raw(code)          == [kind |-> "Raw", msg |-> code]

(***************************************************************************)
(* bcrypt                                                                  *)
(***************************************************************************)
\* a password column value: what was stored and how it was derived
\* (the salt of a digest is not modelled: no caller can observe it)
AsGiven(p)          == [alg |-> "none", of |-> p]
bcryptHash(p)       == [alg |-> "bcrypt", of |-> p]
\* a comparison that accepts every plaintext against a digest
bcryptCompare_anyPlaintext(p, d) == d.alg = "bcrypt"
bcryptCompare(p, d) == d.alg = "bcrypt" /\ d.of = p

(***************************************************************************)
(* The store (PrismaClient over PostgreSQL). Error codes: P1001 the        *)
(* database cannot be reached, P2002 unique constraint, P2003 foreign key  *)
(* constraint, P2025 the record to update or delete does not exist.        *)
(***************************************************************************)
EmptyTable == [i \in {} |-> 0]

\* create: the row gets a fresh uuid unless a constraint rejects it
DbInsert(tbl, n, data, violation) ==
  IF violation # "" THEN [err |-> violation, tbl |-> tbl, n |-> n, id |-> 0]
  ELSE [err |-> "", n |-> n + 1, id |-> n + 1,
        tbl |-> [i \in DOMAIN tbl \cup {n + 1} |->
                   IF i = n + 1 THEN data ELSE tbl[i]]]

\* the update with its where clause dropped: data goes to every row
DbUpdate_everyRow(tbl, id, data, violation) ==
  IF violation # "" THEN [err |-> violation, tbl |-> tbl]
  ELSE [err |-> "",
        tbl |-> [i \in DOMAIN tbl |->
                   [f \in DOMAIN tbl[i] |->
                      IF f \in DOMAIN data THEN data[f] ELSE tbl[i][f]]]]

\* update({where: {id}, data}): only the supplied fields change
DbUpdate(tbl, id, data, violation) ==
  IF violation # "" THEN [err |-> violation, tbl |-> tbl]
  ELSE [err |-> "",
        tbl |-> [tbl EXCEPT ![id] =
                   [f \in DOMAIN tbl[id] |->
                      IF f \in DOMAIN data THEN data[f] ELSE tbl[id][f]]]]

\* delete({where: {id}})
\* a delete that reports success and keeps the row
DbDelete_keepsRow(tbl, id, violation) ==
  IF violation # "" THEN [err |-> violation, tbl |-> tbl]
  ELSE [err |-> "", tbl |-> tbl]

\* delete({where: {id}})
DbDelete(tbl, id, violation) ==
  IF violation # "" THEN [err |-> violation, tbl |-> tbl]
  ELSE [err |-> "", tbl |-> [i \in DOMAIN tbl \ {id} |-> tbl[i]]]

\* the row with its id, as the client returns it
WithId(tbl, id) ==
  [f \in DOMAIN tbl[id] \cup {"id"} |-> IF f = "id" THEN id ELSE tbl[id][f]]

\* rows of tbl whose column col holds id (the relation fields of the schema)
Referencing(tbl, col, id) == {i \in DOMAIN tbl : tbl[i][col] = id}

(* model User: email @unique; BankAccount.user references it *)
EmailTaken(tbl, email, except) ==
  \E i \in DOMAIN tbl : i # except /\ tbl[i].email = email

\* the insert of a table whose email column is not @unique
DbUserCreate_noUnique(tbl, n, data, dbFault) ==
  DbInsert(tbl, n, data, IF dbFault THEN "P1001" ELSE "")

DbUserCreate(tbl, n, data, dbFault) ==
  DbInsert(tbl, n, data,
           IF dbFault THEN "P1001"
           ELSE IF EmailTaken(tbl, data.email, 0) THEN "P2002" ELSE "")

\* the update of a table whose email column is not @unique
DbUserUpdate_noUnique(tbl, id, data, dbFault) ==
  DbUpdate(tbl, id, data,
           IF dbFault THEN "P1001"
           ELSE IF id \notin DOMAIN tbl THEN "P2025" ELSE "")

DbUserUpdate(tbl, id, data, dbFault) ==
  DbUpdate(tbl, id, data,
           IF dbFault THEN "P1001"
           ELSE IF id \notin DOMAIN tbl THEN "P2025"
           ELSE IF "email" \in DOMAIN data /\ EmailTaken(tbl, data.email, id)
             THEN "P2002"
           ELSE "")

\* accounts: the bank accounts table (onDelete defaults to Restrict)
DbUserDelete(tbl, id, accounts, dbFault) ==
  DbDelete(tbl, id,
           IF dbFault THEN "P1001"
           ELSE IF id \notin DOMAIN tbl THEN "P2025"
           ELSE IF Referencing(accounts, "userId", id) # {} THEN "P2003"
           ELSE "")

(* model Category: no unique column; Transaction.category references it *)
DbCategoryCreate(tbl, n, data, dbFault) ==
  DbInsert(tbl, n, data, IF dbFault THEN "P1001" ELSE "")

DbCategoryUpdate(tbl, id, data, dbFault) ==
  DbUpdate(tbl, id, data,
           IF dbFault THEN "P1001"
           ELSE IF id \notin DOMAIN tbl THEN "P2025" ELSE "")

\* the delete of a table no foreign key refers to
DbCategoryDelete_unreferenced(tbl, id, txs, dbFault) ==
  DbDelete(tbl, id,
           IF dbFault THEN "P1001"
           ELSE IF id \notin DOMAIN tbl THEN "P2025" ELSE "")

DbCategoryDelete(tbl, id, txs, dbFault) ==
  DbDelete(tbl, id,
           IF dbFault THEN "P1001"
           ELSE IF id \notin DOMAIN tbl THEN "P2025"
           ELSE IF Referencing(txs, "categoryId", id) # {} THEN "P2003"
           ELSE "")

(* model BankAccount: userId references User; Transaction references it *)
DbBankAccountCreate(tbl, n, data, usrs, dbFault) ==
  DbInsert(tbl, n, data,
           IF dbFault THEN "P1001"
           ELSE IF data.userId \notin DOMAIN usrs THEN "P2003" ELSE "")

DbBankAccountUpdate(tbl, id, data, dbFault) ==
  DbUpdate(tbl, id, data,
           IF dbFault THEN "P1001"
           ELSE IF id \notin DOMAIN tbl THEN "P2025" ELSE "")

DbBankAccountDelete(tbl, id, txs, dbFault) ==
  DbDelete(tbl, id,
           IF dbFault THEN "P1001"
           ELSE IF id \notin DOMAIN tbl THEN "P2025"
           ELSE IF Referencing(txs, "bankAccountId", id) # {} THEN "P2003"
           ELSE "")

(* model Transaction: categoryId and bankAccountId are foreign keys *)
\* the insert of a table with no foreign key
DbTransactionCreate_noForeignKeys(tbl, n, data, cats, accounts, dbFault) ==
  DbInsert(tbl, n, data, IF dbFault THEN "P1001" ELSE "")

DbTransactionCreate(tbl, n, data, cats, accounts, dbFault) ==
  DbInsert(tbl, n, data,
           IF dbFault THEN "P1001"
           ELSE IF data.categoryId \notin DOMAIN cats
                   \/ data.bankAccountId \notin DOMAIN accounts THEN "P2003"
           ELSE "")

DbTransactionUpdate(tbl, id, data, cats, accounts, dbFault) ==
  DbUpdate(tbl, id, data,
           IF dbFault THEN "P1001"
           ELSE IF id \notin DOMAIN tbl THEN "P2025"
           ELSE IF \/ ("categoryId" \in DOMAIN data
                        /\ data.categoryId \notin DOMAIN cats)
                   \/ ("bankAccountId" \in DOMAIN data
                        /\ data.bankAccountId \notin DOMAIN accounts)
             THEN "P2003"
           ELSE "")

\* a delete that succeeds when no row has the id (as deleteMany does)
DbTransactionDelete_ifExists(tbl, id, dbFault) ==
  DbDelete(tbl, id, IF dbFault THEN "P1001" ELSE "")

DbTransactionDelete(tbl, id, dbFault) ==
  DbDelete(tbl, id,
           IF dbFault THEN "P1001"
           ELSE IF id \notin DOMAIN tbl THEN "P2025" ELSE "")

\* the select with password: true added to it
UserPublic_withPassword(tbl, id) ==
  [id |-> id, name |-> tbl[id].name, email |-> tbl[id].email,
   password |-> tbl[id].password]
\* select: {id, name, email, createdAt, updatedAt}
UserPublic(tbl, id) ==
  [id |-> id, name |-> tbl[id].name, email |-> tbl[id].email]
\* select: {id, name, email, password, createdAt, updatedAt}
UserWithPassword(tbl, id) ==
  [id |-> id, name |-> tbl[id].name, email |-> tbl[id].email,
   password |-> tbl[id].password]

(***************************************************************************)
(* DTOs (already validated by the ValidationPipe)                          *)
(***************************************************************************)
NoArg == [f \in {} |-> ""]
\* the objects of D, and each of them with the optional field f set
Optional(D, f, vals) ==
  D \cup {[g \in DOMAIN d \cup {f} |-> IF g = f THEN v ELSE d[g]] :
            <<d, v>> \in D \X vals}

CreateUserDtos == [name : Names, email : Emails, password : Plain]
\* UpdateUserDto: every field optional
UpdateUserDtos ==
  Optional(Optional(Optional({NoArg}, "name", Names), "email", Emails),
           "password", Plain)

(***************************************************************************)
(* UsersService                                                            *)
(***************************************************************************)
Result(tbl, n, out, ret) == [tbl |-> tbl, n |-> n, out |-> out, ret |-> ret]

\* a hashPassword that returns the plaintext when bcrypt.hash fails
hashPassword_fallsBack(p, hashFault) ==
  IF hashFault THEN [out |-> Ok, digest |-> AsGiven(p)]
  ELSE [out |-> Ok, digest |-> bcryptHash(p)]

\* private hashPassword: bcrypt.hash(password, 10), any failure becomes a 500
hashPassword(p, hashFault) ==
  IF hashFault
    THEN [out |-> Internal("Error hashing password"), digest |-> AsGiven(p)]
    ELSE [out |-> Ok, digest |-> bcryptHash(p)]

\* the catch block of create
Users_createCatch(err) ==
  IF err = "P2002" THEN Unprocessable("Email is already in use")
  ELSE Internal("Error creating user")

\* create of revision "head": data: createUserDto
Users_create_head(tbl, n, dto, fault) ==
  LET data == [name |-> dto.name, email |-> dto.email,
               password |-> AsGiven(dto.password)]
      r == DbUserCreate(tbl, n, data, fault = "db")
  IN IF r.err = ""
       THEN Result(r.tbl, r.n, Ok, <<UserPublic(r.tbl, r.id)>>)
       ELSE Result(tbl, n, Users_createCatch(r.err), <<>>)

\* create of revision "part1": data: {...dto, password: hashed}
Users_create_hashed(tbl, n, dto, fault) ==
  LET h == hashPassword(dto.password, fault = "hash")
      data == [name |-> dto.name, email |-> dto.email, password |-> h.digest]
      r == DbUserCreate(tbl, n, data, fault = "db")
  IN IF h.out.kind # "ok" THEN Result(tbl, n, h.out, <<>>)
     ELSE IF r.err = ""
       THEN Result(r.tbl, r.n, Ok, <<UserPublic(r.tbl, r.id)>>)
       ELSE Result(tbl, n, Users_createCatch(r.err), <<>>)

Users_create(rv, tbl, n, dto, fault) ==
  IF rv = "head" THEN Users_create_head(tbl, n, dto, fault)
  ELSE Users_create_hashed(tbl, n, dto, fault)

\* the rows findMany may return: no orderBy, so any order, then skip and take
Orders(S) ==
  {o \in [1..Cardinality(S) -> S] : \A i, j \in DOMAIN o : o[i] = o[j] => i = j}
\* a page that counts skip but starts at the first row
Page_fromTheStart(o, skip, take) ==
  [k \in 1..(IF Len(o) - skip < 0 THEN 0
             ELSE IF Len(o) - skip < take THEN Len(o) - skip ELSE take)
     |-> o[k]]
Page(o, skip, take) ==
  [k \in 1..(IF Len(o) - skip < 0 THEN 0
             ELSE IF Len(o) - skip < take THEN Len(o) - skip ELSE take)
     |-> o[skip + k]]

Users_findAll(tbl, n, skip, take, order, fault) ==
  IF fault = "db" THEN Result(tbl, n, Internal("Error listing users"), <<>>)
  ELSE LET pg == Page(order, skip, take)
       IN Result(tbl, n, Ok, [k \in DOMAIN pg |-> UserPublic(tbl, pg[k])])

Users_findOne(tbl, n, id, fault) ==
  IF fault = "db" THEN Result(tbl, n, Internal("Error finding user"), <<>>)
  ELSE IF id \notin DOMAIN tbl
    THEN Result(tbl, n, NotFound("User not found"), <<>>)
  ELSE Result(tbl, n, Ok, <<UserPublic(tbl, id)>>)

\* findOneByEmail of revision "head": select has password: true
Users_findOneByEmail_head(tbl, n, email, fault) ==
  IF fault = "db" THEN Result(tbl, n, Internal("Error finding user"), <<>>)
  ELSE IF ~EmailTaken(tbl, email, 0)
    THEN Result(tbl, n, NotFound("User with email not found"), <<>>)
  ELSE LET id == CHOOSE i \in DOMAIN tbl : tbl[i].email = email
       IN Result(tbl, n, Ok, <<UserWithPassword(tbl, id)>>)

\* findOneByEmail of revision "part1": select without password
Users_findOneByEmail_part1(tbl, n, email, fault) ==
  IF fault = "db" THEN Result(tbl, n, Internal("Error finding user"), <<>>)
  ELSE IF ~EmailTaken(tbl, email, 0)
    THEN Result(tbl, n, NotFound("User with email not found"), <<>>)
  ELSE LET id == CHOOSE i \in DOMAIN tbl : tbl[i].email = email
       IN Result(tbl, n, Ok, <<UserPublic(tbl, id)>>)

Users_findOneByEmail(rv, tbl, n, email, fault) ==
  IF rv = "head" THEN Users_findOneByEmail_head(tbl, n, email, fault)
  ELSE Users_findOneByEmail_part1(tbl, n, email, fault)

\* the same without the P2002 branch of the catch
Users_updateWrite_noP2002(rv, tbl, n, id, dto, fault) ==
  LET hashes == rv # "head" /\ "password" \in DOMAIN dto
      h == IF hashes THEN hashPassword(dto.password, fault = "hash")
           ELSE [out |-> Ok, digest |-> AsGiven("p1")]
      data == [f \in DOMAIN dto |->
                 IF f = "password"
                   THEN (IF hashes THEN h.digest ELSE AsGiven(dto[f]))
                   ELSE dto[f]]
      r == DbUserUpdate(tbl, id, data, fault = "db")
  IN IF h.out.kind # "ok" THEN Result(tbl, n, h.out, <<>>)
     ELSE IF r.err = "" THEN Result(r.tbl, n, Ok, <<UserPublic(r.tbl, id)>>)
     ELSE Result(tbl, n, Internal("Error updating user"), <<>>)

\* update after its existence check: build data, call the store, map errors
Users_updateWrite(rv, tbl, n, id, dto, fault) ==
  LET hashes == rv # "head" /\ "password" \in DOMAIN dto
      h == IF hashes THEN hashPassword(dto.password, fault = "hash")
           ELSE [out |-> Ok, digest |-> AsGiven("p1")]
      data == [f \in DOMAIN dto |->
                 IF f = "password"
                   THEN (IF hashes THEN h.digest ELSE AsGiven(dto[f]))
                   ELSE dto[f]]
      r == DbUserUpdate(tbl, id, data, fault = "db")
  IN IF h.out.kind # "ok" THEN Result(tbl, n, h.out, <<>>)
     ELSE IF r.err = "" THEN Result(r.tbl, n, Ok, <<UserPublic(r.tbl, id)>>)
     ELSE IF r.err = "P2002"
       THEN Result(tbl, n, Unprocessable("Email is already in use"), <<>>)
     ELSE Result(tbl, n, Internal("Error updating user"), <<>>)

\* update: await this.findOne(id) first; NotFound and 500s are re-thrown
Users_update(rv, tbl, n, id, dto, fault) ==
  LET chk == Users_findOne(tbl, n, id, IF fault = "find" THEN "db" ELSE "none")
  IN IF chk.out.kind # "ok" THEN Result(tbl, n, chk.out, <<>>)
     ELSE Users_updateWrite(rv, tbl, n, id, dto, fault)

\* remove after its existence check
Users_removeWrite(tbl, n, id, accounts, fault) ==
  LET r == DbUserDelete(tbl, id, accounts, fault = "db")
  IN IF r.err = "" THEN Result(r.tbl, n, Ok, <<>>)
     ELSE Result(tbl, n, Internal("Error deleting user"), <<>>)

\* remove: only NotFound is re-thrown, everything else becomes a 500
Users_remove(tbl, n, id, accounts, fault) ==
  LET chk == Users_findOne(tbl, n, id, IF fault = "find" THEN "db" ELSE "none")
  IN IF chk.out.kind = "NotFound" THEN Result(tbl, n, chk.out, <<>>)
     ELSE IF chk.out.kind # "ok"
       THEN Result(tbl, n, Internal("Error deleting user"), <<>>)
     ELSE Users_removeWrite(tbl, n, id, accounts, fault)

\* validateCredentials (revision "part1"): the lookup is outside any try;
\* the mismatch is thrown inside the try whose catch turns every error into
\* 'Error validating credentials'
validateCredentials(tbl, n, dto, fault) ==
  IF fault = "db" THEN Result(tbl, n, Raw("P1001"), <<>>)
  ELSE IF ~EmailTaken(tbl, dto.email, 0)
    THEN Result(tbl, n, Unauthorized("Invalid credentials"), <<>>)
  ELSE LET id == CHOOSE i \in DOMAIN tbl : tbl[i].email = dto.email
           isPasswordValid == bcryptCompare(dto.password, tbl[id].password)
       IN IF fault = "compare" \/ ~isPasswordValid
            THEN Result(tbl, n, Internal("Error validating credentials"), <<>>)
            ELSE Result(tbl, n, Ok, <<UserPublic(tbl, id)>>)

(***************************************************************************)
(* UsersController: every handler re-throws what the service threw         *)
(***************************************************************************)
\* everything the services throw is an instance of Error
IsErrorInstance(out) ==
  out.kind \in {"NotFound", "Unprocessable", "Unauthorized", "Internal", "Raw"}
UsersController_handle(out, msg) ==
  IF out.kind = "ok" THEN out
  ELSE IF IsErrorInstance(out) THEN out
  ELSE Internal(msg)

(***************************************************************************)
(* Requests                                                                *)
(***************************************************************************)
Call(svc, op, id, arg, fault, out, ret, http) ==
  [svc |-> svc, op |-> op, id |-> id, arg |-> arg, fault |-> fault,
   out |-> out, ret |-> ret, http |-> http]
NoHttp == [kind |-> "none", msg |-> ""]
\* no request is being served
NoCall == Call("none", "none", 0, NoArg, "none", Ok, <<>>, NoHttp)

\* no call is between its existence check and its mutation
NoPending == [svc |-> "none", op |-> "none", id |-> 0]

CanCreate(t) == issued[t] < MaxIds
\* a request to service svc can be served
Serving(svc) == resp = NoCall /\ scope \in {svc, "all"}

\* now() at the next write
Tick(c) == IF c = 0 THEN 0 ELSE c + 1
\* createdAt @default(now()) and updatedAt @updatedAt of table t: a new row
\* gets both, a successful update sets updatedAt, a deleted row is gone
Stamped(t, op, id, r) ==
  [stamps EXCEPT ![t] =
     [i \in DOMAIN r.tbl |->
        IF i \notin DOMAIN stamps[t]
          THEN [createdAt |-> Tick(clock), updatedAt |-> Tick(clock)]
        ELSE IF op = "update" /\ i = id /\ r.out.kind = "ok"
          THEN [stamps[t][i] EXCEPT !.updatedAt = Tick(clock)]
        ELSE stamps[t][i]]]
\* the calls that write a row with a new stamp
WriteOps == {"create", "update", "createThenFindOne"}
\* the clock and the stamps after the call op of table t with result r
Timed(t, op, id, r) ==
  /\ op \in WriteOps => clock < MaxClock
  /\ clock' = IF op \in WriteOps /\ r.out.kind = "ok"
                THEN Tick(clock) ELSE clock
  /\ stamps' = Stamped(t, op, id, r)

UsersDone(op, id, arg, fault, r, http) ==
  /\ Timed("users", op, id, r)
  /\ users' = r.tbl
  /\ issued' = [issued EXCEPT !.users = r.n]
  /\ resp' = Call("users", op, id, arg, fault, r.out, r.ret, http)
  /\ UNCHANGED <<scope, rev, categories, bankAccounts, transactions, pending>>

\* POST /users
UsersCreate ==
  /\ Serving("users")
  /\ \E dto \in CreateUserDtos, fault \in {"none", "db", "hash"} :
    /\ CanCreate("users")
    /\ fault = "hash" => rev # "head"
    /\ LET r == Users_create(rev, users, issued.users, dto, fault)
       IN UsersDone("create", 0, dto, fault, r,
                    UsersController_handle(r.out, "Error creating user"))

\* GET /users?skip=&take=  (defaults 0 and 10)
UsersFindAll ==
  /\ Serving("users")
  /\ \E skip \in {0, 1}, take \in {1, 10}, fault \in {"none", "db"},
     order \in Orders(DOMAIN users) :
    LET r == Users_findAll(users, issued.users, skip, take, order, fault)
    IN UsersDone("findAll", 0, [skip |-> skip, take |-> take], fault, r,
                 UsersController_handle(r.out, "Error listing users"))

\* GET /users/:id
UsersFindOne ==
  /\ Serving("users")
  /\ \E id \in Ids \cup {GhostId}, fault \in {"none", "db"} :
    LET r == Users_findOne(users, issued.users, id, fault)
    IN UsersDone("findOne", id, NoArg, fault, r,
                 UsersController_handle(r.out, "Error getting user"))

\* findOneByEmail has no route in the controller
UsersFindOneByEmail ==
  /\ Serving("users")
  /\ \E email \in Emails, fault \in {"none", "db"} :
    /\ LET r == Users_findOneByEmail(rev, users, issued.users, email, fault)
       IN UsersDone("findOneByEmail", 0, [email |-> email], fault, r, NoHttp)

\* PATCH /users/:id
UsersUpdate ==
  /\ Serving("users")
  /\ \E id \in Ids \cup {GhostId}, dto \in UpdateUserDtos,
     fault \in {"none", "find", "db", "hash"} :
    /\ fault = "hash" => (rev # "head" /\ "password" \in DOMAIN dto)
    \* one request is enough to exercise each fault
    /\ fault \notin {"none", "hash"} => dto = [password |-> "p1"]
    /\ LET r == Users_update(rev, users, issued.users, id, dto, fault)
       IN UsersDone("update", id, dto, fault, r,
                    UsersController_handle(r.out, "Error updating user"))

\* DELETE /users/:id
UsersRemove ==
  /\ Serving("users")
  /\ \E id \in Ids \cup {GhostId}, fault \in {"none", "find", "db"} :
    LET r == Users_remove(users, issued.users, id, bankAccounts, fault)
    IN UsersDone("remove", id, NoArg, fault, r,
                 UsersController_handle(r.out, "Error deleting user"))

\* validateCredentials has no route in the controller
UsersValidateCredentials ==
  /\ Serving("users")
  /\ \E dto \in [email : Emails, password : Plain],
     fault \in {"none", "db", "compare"} :
    /\ rev = "part1"
    /\ LET r == validateCredentials(users, issued.users, dto, fault)
       IN UsersDone("validateCredentials", 0, dto, fault, r, NoHttp)

(***************************************************************************)
(* CategoriesService                                                       *)
(***************************************************************************)
CreateCategoryDtos == [name : Names, color : Colors, description : Descriptions]
UpdateCategoryDtos ==
  Optional(Optional(Optional({NoArg}, "name", Names), "color", Colors),
           "description", Descriptions)

Categories_create(tbl, n, dto, fault) ==
  LET r == DbCategoryCreate(tbl, n, dto, fault = "db")
  IN IF r.err = "" THEN Result(r.tbl, r.n, Ok, <<WithId(r.tbl, r.id)>>)
     ELSE IF r.err = "P2002"
       THEN Result(tbl, n, Unprocessable("Category already exists"), <<>>)
     ELSE Result(tbl, n, Internal("Error creating category"), <<>>)

Categories_findAll(tbl, n, skip, take, order, fault) ==
  IF fault = "db" THEN Result(tbl, n, Internal("Error listing categories"), <<>>)
  ELSE LET pg == Page(order, skip, take)
       IN Result(tbl, n, Ok, [k \in DOMAIN pg |-> WithId(tbl, pg[k])])

\* findOne whose record lacks the description
Categories_findOne_noDescription(tbl, n, id, fault) ==
  IF fault = "db"
    THEN Result(tbl, n, Internal("Error retrieving category"), <<>>)
  ELSE IF id \notin DOMAIN tbl
    THEN Result(tbl, n, NotFound("Category not found"), <<>>)
  ELSE Result(tbl, n, Ok,
              <<[id |-> id, name |-> tbl[id].name, color |-> tbl[id].color]>>)

Categories_findOne(tbl, n, id, fault) ==
  IF fault = "db"
    THEN Result(tbl, n, Internal("Error retrieving category"), <<>>)
  ELSE IF id \notin DOMAIN tbl
    THEN Result(tbl, n, NotFound("Category not found"), <<>>)
  ELSE Result(tbl, n, Ok, <<WithId(tbl, id)>>)

\* an update that writes the whole row: the fields of the DTO, and for a
\* colour the DTO does not supply an old one instead of the stored one
Categories_updateWrite_wholeRow(tbl, n, id, dto, fault) ==
  LET whole == [f \in DOMAIN tbl[id] |->
                  IF f \in DOMAIN dto THEN dto[f]
                  ELSE IF f = "color" THEN "c1" ELSE tbl[id][f]]
      r == DbCategoryUpdate(tbl, id, whole, fault = "db")
  IN IF r.err = "" THEN Result(r.tbl, n, Ok, <<WithId(r.tbl, id)>>)
     ELSE IF r.err = "P2002"
       THEN Result(tbl, n, Unprocessable("Category already exists"), <<>>)
     ELSE Result(tbl, n, Internal("Error updating category"), <<>>)

\* update after its existence check
Categories_updateWrite(tbl, n, id, dto, fault) ==
  LET r == DbCategoryUpdate(tbl, id, dto, fault = "db")
  IN IF r.err = "" THEN Result(r.tbl, n, Ok, <<WithId(r.tbl, id)>>)
     ELSE IF r.err = "P2002"
       THEN Result(tbl, n, Unprocessable("Category already exists"), <<>>)
     ELSE Result(tbl, n, Internal("Error updating category"), <<>>)

\* update: only NotFound of the existence check is re-thrown as it is
Categories_update(tbl, n, id, dto, fault) ==
  LET chk == Categories_findOne(tbl, n, id,
                                IF fault = "find" THEN "db" ELSE "none")
  IN IF chk.out.kind = "NotFound" THEN Result(tbl, n, chk.out, <<>>)
     ELSE IF chk.out.kind # "ok"
       THEN Result(tbl, n, Internal("Error updating category"), <<>>)
     ELSE Categories_updateWrite(tbl, n, id, dto, fault)

Categories_removeWrite(tbl, n, id, txs, fault) ==
  LET r == DbCategoryDelete(tbl, id, txs, fault = "db")
  IN IF r.err = "" THEN Result(r.tbl, n, Ok, <<>>)
     ELSE Result(tbl, n, Internal("Error deleting category"), <<>>)

\* remove without its await this.findOne(id)
Categories_remove_noFindOne(tbl, n, id, txs, fault) ==
  Categories_removeWrite(tbl, n, id, txs, fault)

\* remove: await this.findOne(id) first; only NotFound is re-thrown
Categories_remove(tbl, n, id, txs, fault) ==
  LET chk == Categories_findOne(tbl, n, id,
                                IF fault = "find" THEN "db" ELSE "none")
  IN IF chk.out.kind = "NotFound" THEN Result(tbl, n, chk.out, <<>>)
     ELSE IF chk.out.kind # "ok"
       THEN Result(tbl, n, Internal("Error deleting category"), <<>>)
     ELSE Categories_removeWrite(tbl, n, id, txs, fault)

\* CategoriesController: every catch block ends in a new 500
CategoriesController_handle(out, msg) ==
  IF out.kind = "ok" THEN out ELSE Internal(msg)

CategoriesDone(op, id, arg, fault, r, http) ==
  /\ Timed("categories", op, id, r)
  /\ categories' = r.tbl
  /\ issued' = [issued EXCEPT !.categories = r.n]
  /\ resp' = Call("categories", op, id, arg, fault, r.out, r.ret, http)
  /\ UNCHANGED <<scope, rev, users, bankAccounts, transactions, pending>>

\* POST /categories
CategoriesCreate ==
  /\ Serving("categories")
  /\ \E dto \in CreateCategoryDtos, fault \in {"none", "db"} :
    /\ CanCreate("categories")
    /\ LET r == Categories_create(categories, issued.categories, dto, fault)
       IN CategoriesDone("create", 0, dto, fault, r,
            CategoriesController_handle(r.out, "Error creating category"))

\* GET /categories: the controller passes no skip and no take
CategoriesFindAll ==
  /\ Serving("categories")
  /\ \E fault \in {"none", "db"}, order \in Orders(DOMAIN categories) :
    LET r == Categories_findAll(categories, issued.categories, 0, 10, order,
                                fault)
    IN CategoriesDone("findAll", 0, [skip |-> 0, take |-> 10], fault, r,
         CategoriesController_handle(r.out, "Error listing categories"))

\* GET /categories/:id
CategoriesFindOne ==
  /\ Serving("categories")
  /\ \E id \in Ids \cup {GhostId}, fault \in {"none", "db"} :
    LET r == Categories_findOne(categories, issued.categories, id, fault)
    IN CategoriesDone("findOne", id, NoArg, fault, r,
         CategoriesController_handle(r.out, "Error finding category"))

\* PATCH /categories/:id
CategoriesUpdate ==
  /\ Serving("categories")
  /\ \E id \in Ids \cup {GhostId}, dto \in UpdateCategoryDtos,
     fault \in {"none", "find", "db"} :
    /\ fault # "none" => dto = [name |-> "n1"]
    /\ LET r == Categories_update(categories, issued.categories, id, dto, fault)
       IN CategoriesDone("update", id, dto, fault, r,
            CategoriesController_handle(r.out, "Error updating category"))

\* DELETE /categories/:id
CategoriesRemove ==
  /\ Serving("categories")
  /\ \E id \in Ids \cup {GhostId}, fault \in {"none", "find", "db"} :
    LET r == Categories_remove(categories, issued.categories, id,
                               transactions, fault)
    IN CategoriesDone("remove", id, NoArg, fault, r,
         CategoriesController_handle(r.out, "Error deleting category"))

CategoriesNext ==
  \/ CategoriesCreate
  \/ CategoriesFindAll
  \/ CategoriesFindOne
  \/ CategoriesUpdate
  \/ CategoriesRemove

(***************************************************************************)
(* BankAccountService: no method catches anything                          *)
(***************************************************************************)
\* the body of a request may carry a property the class does not declare:
\* here a userId
CreateBankAccountDtos ==
  Optional([name : Names, apiToken : ApiTokens,
            accountStatus : AccountStatuses,
            connectionStatus : ConnectionStatuses], "userId", SeedIds)
UpdateBankAccountDtos ==
  Optional(Optional(Optional(Optional({NoArg}, "name", Names),
                             "apiToken", ApiTokens),
                    "accountStatus", AccountStatuses),
           "connectionStatus", ConnectionStatuses)

\* an error of the store leaves the service as it is
BankAccount_out(err) == IF err = "" THEN Ok ELSE Raw(err)

\* data: {...createBankAccountDto, userId}
BankAccount_create(tbl, n, userId, dto, usrs, fault) ==
  LET data == [f \in DOMAIN dto \cup {"userId"} |->
                 IF f = "userId" THEN userId ELSE dto[f]]
      r == DbBankAccountCreate(tbl, n, data, usrs, fault = "db")
  IN Result(r.tbl, r.n, BankAccount_out(r.err),
            IF r.err = "" THEN <<WithId(r.tbl, r.id)>> ELSE <<>>)

\* where: {userId} of another query: every account
BankAccountsOf_anyUser(tbl, userId) == DOMAIN tbl
\* where: {userId}
BankAccountsOf(tbl, userId) == Referencing(tbl, "userId", userId)

\* a findOne that selects by id alone
BankAccount_findOne_byIdAlone(tbl, n, userId, id, fault) ==
  IF fault = "db" THEN Result(tbl, n, Raw("P1001"), <<>>)
  ELSE IF id \in DOMAIN tbl THEN Result(tbl, n, Ok, <<WithId(tbl, id)>>)
  ELSE Result(tbl, n, Ok, <<>>)

\* findMany({where: {userId}}); order: the rows in the order the store
\* returns them
BankAccount_findAll(tbl, n, userId, order, fault) ==
  IF fault = "db" THEN Result(tbl, n, Raw("P1001"), <<>>)
  ELSE Result(tbl, n, Ok,
              [k \in DOMAIN order |-> WithId(tbl, order[k])])

\* findFirst({where: {id, userId}}): null when no row matches
BankAccount_findOne(tbl, n, userId, id, fault) ==
  IF fault = "db" THEN Result(tbl, n, Raw("P1001"), <<>>)
  ELSE IF id \in DOMAIN tbl /\ tbl[id].userId = userId
    THEN Result(tbl, n, Ok, <<WithId(tbl, id)>>)
  ELSE Result(tbl, n, Ok, <<>>)

\* an update that selects by id and owner: where: {id, userId}
BankAccount_update_ownerOnly(tbl, n, userId, id, dto, fault) ==
  LET r == DbBankAccountUpdate(tbl, id, dto, fault = "db")
  IN IF fault # "db" /\ id \in DOMAIN tbl /\ tbl[id].userId # userId
       THEN Result(tbl, n, Raw("P2025"), <<>>)
       ELSE Result(r.tbl, n, BankAccount_out(r.err),
                   IF r.err = "" THEN <<WithId(r.tbl, id)>> ELSE <<>>)

\* update({where: {id}, data}): userId is not used
BankAccount_update(tbl, n, userId, id, dto, fault) ==
  LET r == DbBankAccountUpdate(tbl, id, dto, fault = "db")
  IN Result(r.tbl, n, BankAccount_out(r.err),
            IF r.err = "" THEN <<WithId(r.tbl, id)>> ELSE <<>>)

\* delete({where: {id}}): userId is not used
BankAccount_remove(tbl, n, userId, id, txs, fault) ==
  LET r == DbBankAccountDelete(tbl, id, txs, fault = "db")
  IN Result(r.tbl, n, BankAccount_out(r.err), <<>>)

BankDone(op, id, arg, fault, r) ==
  /\ Timed("bankAccounts", op, id, r)
  /\ bankAccounts' = r.tbl
  /\ issued' = [issued EXCEPT !.bankAccounts = r.n]
  /\ resp' = Call("bankAccount", op, id, arg, fault, r.out, r.ret, r.out)
  /\ UNCHANGED <<scope, rev, users, categories, transactions, pending>>

BankCreate ==
  /\ Serving("bankAccount")
  /\ \E userId \in SeedIds \cup {GhostId}, dto \in CreateBankAccountDtos,
     fault \in {"none", "db"} :
    /\ CanCreate("bankAccounts")
    /\ LET r == BankAccount_create(bankAccounts, issued.bankAccounts, userId,
                                   dto, users, fault)
       IN BankDone("create", 0, [userId |-> userId, fields |-> dto],
                   fault, r)

BankFindAll ==
  /\ Serving("bankAccount")
  /\ \E userId \in SeedIds \cup {GhostId}, fault \in {"none", "db"} :
   \E order \in Orders(BankAccountsOf(bankAccounts, userId)) :
    LET r == BankAccount_findAll(bankAccounts, issued.bankAccounts, userId,
                                 order, fault)
    IN BankDone("findAll", 0, [userId |-> userId], fault, r)

BankFindOne ==
  /\ Serving("bankAccount")
  /\ \E userId \in SeedIds \cup {GhostId}, id \in Ids \cup {GhostId},
     fault \in {"none", "db"} :
    LET r == BankAccount_findOne(bankAccounts, issued.bankAccounts, userId,
                                 id, fault)
    IN BankDone("findOne", id, [userId |-> userId], fault, r)

BankUpdate ==
  /\ Serving("bankAccount")
  /\ \E userId \in SeedIds \cup {GhostId}, id \in Ids \cup {GhostId},
     dto \in UpdateBankAccountDtos, fault \in {"none", "db"} :
    /\ fault # "none" => dto = [name |-> "n1"]
    /\ LET r == BankAccount_update(bankAccounts, issued.bankAccounts, userId,
                                   id, dto, fault)
       IN BankDone("update", id,
                   [f \in DOMAIN dto \cup {"userId"} |->
                      IF f = "userId" THEN userId ELSE dto[f]], fault, r)

BankRemove ==
  /\ Serving("bankAccount")
  /\ \E userId \in SeedIds \cup {GhostId}, id \in Ids \cup {GhostId},
     fault \in {"none", "db"} :
    LET r == BankAccount_remove(bankAccounts, issued.bankAccounts, userId, id,
                                transactions, fault)
    IN BankDone("remove", id, [userId |-> userId], fault, r)

BankNext ==
  \/ BankCreate
  \/ BankFindAll
  \/ BankFindOne
  \/ BankUpdate
  \/ BankRemove

(***************************************************************************)
(* TransactionsService                                                     *)
(***************************************************************************)
\* new Date(isoString): the instant, here as a number that orders like it
ToDate(iso) ==
  IF iso = "2025-01-01T00:00:00.000Z" THEN 20250101 ELSE 20250201

CreateTransactionDtos ==
  [bankAccountId : SeedIds \cup {GhostId}, date : IsoDates, amount : Amounts,
   type : Types, categoryId : SeedIds \cup {GhostId}]
\* UpdateTransactionDto: every field optional (requests of no field, of one
\* field, and of the two fields date and type)
UpdateTransactionDtos ==
  {d \in Optional(Optional(Optional(Optional(Optional({NoArg},
            "bankAccountId", SeedIds \cup {GhostId}), "date", IsoDates),
            "amount", Amounts), "type", Types),
            "categoryId", SeedIds \cup {GhostId}) :
     Cardinality(DOMAIN d) <= 1 \/ DOMAIN d = {"date", "type"}}

\* include: {category: true}
WithCategory(tbl, id, cats) ==
  [f \in DOMAIN tbl[id] \cup {"id", "category"} |->
     IF f = "id" THEN id
     ELSE IF f = "category" THEN WithId(cats, tbl[id].categoryId)
     ELSE tbl[id][f]]

\* data: {...dto, date: new Date(dto.date)}
Transactions_create(tbl, n, dto, cats, accounts, fault) ==
  LET data == [dto EXCEPT !.date = ToDate(dto.date)]
      r == DbTransactionCreate(tbl, n, data, cats, accounts, fault = "db")
  IN IF r.err = "" THEN Result(r.tbl, r.n, Ok, <<WithId(r.tbl, r.id)>>)
     ELSE IF r.err = "P2002"
       THEN Result(tbl, n, Unprocessable("Transaction already exists"), <<>>)
     ELSE Result(tbl, n, Internal("Error creating transaction"), <<>>)

Transactions_findAll(tbl, n, skip, take, order, cats, fault) ==
  IF fault = "db"
    THEN Result(tbl, n, Internal("Error listing transactions"), <<>>)
  ELSE LET pg == Page(order, skip, take)
       IN Result(tbl, n, Ok, [k \in DOMAIN pg |-> WithCategory(tbl, pg[k], cats)])

\* orderBy: {date: 'desc'}: rows of equal date come in any order
DateDesc(tbl, S) ==
  {o \in Orders(S) :
     \A i, j \in DOMAIN o : i < j => tbl[o[i]].date >= tbl[o[j]].date}

\* where: {bankAccountId: {in: bankAccountIds}} with every row in it
TransactionsOf_anyAccount(tbl, accounts, userId) == DOMAIN tbl

\* where: {bankAccountId: {in: bankAccountIds}}, bankAccountIds being the ids
\* of bankAccount.findMany({where: {userId}})
TransactionsOf(tbl, accounts, userId) ==
  {t \in DOMAIN tbl :
     tbl[t].bankAccountId \in Referencing(accounts, "userId", userId)}

\* findByUserId without its if (bankAccounts.length === 0) return []
Transactions_findByUserId_noEarlyReturn(tbl, n, userId, skip, take, order, cats, accounts, fault) ==
  IF fault \in {"db", "list"}
    THEN Result(tbl, n, Internal("Error finding transactions by user ID"), <<>>)
  ELSE LET pg == Page(order, skip, take)
       IN Result(tbl, n, Ok,
                 [k \in DOMAIN pg |-> WithCategory(tbl, pg[k], cats)])

\* order: one of DateDesc over the rows of the user's accounts
\* fault "db": bankAccount.findMany rejects; "list": transaction.findMany does
Transactions_findByUserId(tbl, n, userId, skip, take, order, cats, accounts, fault) ==
  LET bankAccountIds == Referencing(accounts, "userId", userId)
  IN IF fault = "db"
       THEN Result(tbl, n,
                   Internal("Error finding transactions by user ID"), <<>>)
     ELSE IF bankAccountIds = {} THEN Result(tbl, n, Ok, <<>>)
     ELSE IF fault = "list"
       THEN Result(tbl, n,
                   Internal("Error finding transactions by user ID"), <<>>)
     ELSE LET pg == Page(order, skip, take)
          IN Result(tbl, n, Ok,
                    [k \in DOMAIN pg |-> WithCategory(tbl, pg[k], cats)])

Transactions_findOne(tbl, n, id, cats, fault) ==
  IF fault = "db"
    THEN Result(tbl, n, Internal("Error retrieving transaction"), <<>>)
  ELSE IF id \notin DOMAIN tbl
    THEN Result(tbl, n, NotFound("Transaction not found"), <<>>)
  ELSE Result(tbl, n, Ok, <<WithCategory(tbl, id, cats)>>)

\* an update whose catch turns the store's P2025 into a NotFound
Transactions_updateWrite_notFound(tbl, n, id, dto, cats, accounts, fault) ==
  LET data == [f \in DOMAIN dto |->
                 IF f = "date" THEN ToDate(dto[f]) ELSE dto[f]]
      r == DbTransactionUpdate(tbl, id, data, cats, accounts, fault = "db")
  IN IF r.err = "" THEN Result(r.tbl, n, Ok, <<WithCategory(r.tbl, id, cats)>>)
     ELSE IF r.err = "P2025"
       THEN Result(tbl, n, NotFound("Transaction not found"), <<>>)
     ELSE Result(tbl, n, Internal("Error updating transaction"), <<>>)

\* update after its existence check: if (data.date) data.date = new Date(..)
Transactions_updateWrite(tbl, n, id, dto, cats, accounts, fault) ==
  LET data == [f \in DOMAIN dto |->
                 IF f = "date" THEN ToDate(dto[f]) ELSE dto[f]]
      r == DbTransactionUpdate(tbl, id, data, cats, accounts, fault = "db")
  IN IF r.err = "" THEN Result(r.tbl, n, Ok, <<WithCategory(r.tbl, id, cats)>>)
     ELSE Result(tbl, n, Internal("Error updating transaction"), <<>>)

\* update without its await this.findOne(id)
Transactions_update_noFindOne(tbl, n, id, dto, cats, accounts, fault) ==
  Transactions_updateWrite(tbl, n, id, dto, cats, accounts, fault)

\* update: await this.findOne(id) first; only NotFound is re-thrown
Transactions_update(tbl, n, id, dto, cats, accounts, fault) ==
  LET chk == Transactions_findOne(tbl, n, id, cats,
                                  IF fault = "find" THEN "db" ELSE "none")
  IN IF chk.out.kind = "NotFound" THEN Result(tbl, n, chk.out, <<>>)
     ELSE IF chk.out.kind # "ok"
       THEN Result(tbl, n, Internal("Error updating transaction"), <<>>)
     ELSE Transactions_updateWrite(tbl, n, id, dto, cats, accounts, fault)

Transactions_removeWrite(tbl, n, id, fault) ==
  LET r == DbTransactionDelete(tbl, id, fault = "db")
  IN IF r.err = "" THEN Result(r.tbl, n, Ok, <<>>)
     ELSE Result(tbl, n, Internal("Error deleting transaction"), <<>>)

Transactions_remove(tbl, n, id, cats, fault) ==
  LET chk == Transactions_findOne(tbl, n, id, cats,
                                  IF fault = "find" THEN "db" ELSE "none")
  IN IF chk.out.kind = "NotFound" THEN Result(tbl, n, chk.out, <<>>)
     ELSE IF chk.out.kind # "ok"
       THEN Result(tbl, n, Internal("Error deleting transaction"), <<>>)
     ELSE Transactions_removeWrite(tbl, n, id, fault)

\* TransactionsController: every catch block ends in a new 500
TransactionsController_handle(out, msg) ==
  IF out.kind = "ok" THEN out ELSE Internal(msg)

TransactionsDone(op, id, arg, fault, r, http) ==
  /\ Timed("transactions", op, id, r)
  /\ transactions' = r.tbl
  /\ issued' = [issued EXCEPT !.transactions = r.n]
  /\ resp' = Call("transactions", op, id, arg, fault, r.out, r.ret, http)
  /\ UNCHANGED <<scope, rev, users, categories, bankAccounts, pending>>

\* POST /transactions
TransactionsCreate ==
  /\ Serving("transactions")
  /\ \E dto \in CreateTransactionDtos, fault \in {"none", "db"} :
    /\ CanCreate("transactions")
    /\ (fault # "none" \/ dto.bankAccountId = GhostId
        \/ dto.categoryId = GhostId)
         => (dto.amount = 10 /\ dto.type = "income"
             /\ dto.date = "2025-01-01T00:00:00.000Z")
    /\ LET r == Transactions_create(transactions, issued.transactions, dto,
                                    categories, bankAccounts, fault)
       IN TransactionsDone("create", 0, dto, fault, r,
            TransactionsController_handle(r.out, "Error creating transaction"))

\* GET /transactions?skip=&take=
TransactionsFindAll ==
  /\ Serving("transactions")
  /\ \E skip \in {0, 1}, take \in {1, 10}, fault \in {"none", "db"},
     order \in Orders(DOMAIN transactions) :
    LET r == Transactions_findAll(transactions, issued.transactions, skip,
                                  take, order, categories, fault)
    IN TransactionsDone("findAll", 0, [skip |-> skip, take |-> take], fault, r,
         TransactionsController_handle(r.out, "Error listing transactions"))

\* GET /transactions/user/:userId?skip=&take=
TransactionsFindByUserId ==
  /\ Serving("transactions")
  /\ \E userId \in SeedIds \cup {GhostId}, skip \in {0, 1}, take \in {1, 10},
     fault \in {"none", "db", "list"} :
   \E order \in DateDesc(transactions,
                         TransactionsOf(transactions, bankAccounts, userId)) :
    LET r == Transactions_findByUserId(transactions, issued.transactions,
               userId, skip, take, order, categories, bankAccounts, fault)
    IN TransactionsDone("findByUserId", 0,
         [userId |-> userId, skip |-> skip, take |-> take], fault, r,
         TransactionsController_handle(r.out,
           "Error finding transactions by user ID"))

\* GET /transactions/:id
TransactionsFindOne ==
  /\ Serving("transactions")
  /\ \E id \in Ids \cup {GhostId}, fault \in {"none", "db"} :
    LET r == Transactions_findOne(transactions, issued.transactions, id,
                                  categories, fault)
    IN TransactionsDone("findOne", id, NoArg, fault, r,
         TransactionsController_handle(r.out, "Error finding transaction"))

\* PATCH /transactions/:id
TransactionsUpdate ==
  /\ Serving("transactions")
  /\ \E id \in Ids \cup {GhostId}, dto \in UpdateTransactionDtos,
     fault \in {"none", "find", "db"} :
    /\ fault # "none" => dto = [amount |-> 10]
    /\ LET r == Transactions_update(transactions, issued.transactions, id, dto,
                                    categories, bankAccounts, fault)
       IN TransactionsDone("update", id, dto, fault, r,
            TransactionsController_handle(r.out, "Error updating transaction"))

\* DELETE /transactions/:id
TransactionsRemove ==
  /\ Serving("transactions")
  /\ \E id \in Ids \cup {GhostId}, fault \in {"none", "find", "db"} :
    LET r == Transactions_remove(transactions, issued.transactions, id,
                                 categories, fault)
    IN TransactionsDone("remove", id, NoArg, fault, r,
         TransactionsController_handle(r.out, "Error deleting transaction"))

TransactionsNext ==
  \/ TransactionsCreate
  \/ TransactionsFindAll
  \/ TransactionsFindByUserId
  \/ TransactionsFindOne
  \/ TransactionsUpdate
  \/ TransactionsRemove

(***************************************************************************)
(* The database the server starts on. Rows of earlier runs are there: two  *)
(* users when the bank accounts are exercised; two users                   *)
(* and two categories when the transactions are; their two bank accounts   *)
(* belong to one user each, or both to the first user.                     *)
(***************************************************************************)
Scopes == {"users", "categories", "bankAccount", "transactions"}

\* a password column as the deployed revision writes it
StoredPassword(rv, p) == IF rv = "head" THEN AsGiven(p) ELSE bcryptHash(p)

SeedUsers(rv) ==
  (1 :> [name |-> "n1", email |-> "e1", password |-> StoredPassword(rv, "p1")])
  @@ (2 :> [name |-> "n2", email |-> "e2",
            password |-> StoredPassword(rv, "p2")])
SeedCategories ==
  (1 :> [name |-> "n1", color |-> "c1", description |-> "d1"])
  @@ (2 :> [name |-> "n2", color |-> "c2", description |-> "d1"])
\* owner: the user the second account belongs to
SeedBankAccounts(owner) ==
  (1 :> [userId |-> 1, name |-> "n1", apiToken |-> "t1",
         accountStatus |-> "active", connectionStatus |-> "connected"])
  @@ (2 :> [userId |-> owner, name |-> "n2", apiToken |-> "t1",
            accountStatus |-> "active", connectionStatus |-> "connected"])

\* the stamps of the rows of earlier runs
Stamp0 == [createdAt |-> 0, updatedAt |-> 0]

\* c: 0, or the instant of the start when instants are told apart
Start(c) ==
  /\ scope \in Scopes
  /\ rev \in (IF scope = "users" THEN Revs ELSE {"head"})
  /\ users = IF scope \in {"bankAccount", "transactions"}
               THEN SeedUsers(rev) ELSE EmptyTable
  /\ categories = IF scope = "transactions" THEN SeedCategories ELSE EmptyTable
  /\ bankAccounts \in (IF scope = "transactions"
                          THEN {SeedBankAccounts(o) : o \in SeedIds}
                          ELSE {EmptyTable})
  /\ transactions = EmptyTable
  /\ issued = [users |-> Cardinality(DOMAIN users),
               categories |-> Cardinality(DOMAIN categories),
               bankAccounts |-> Cardinality(DOMAIN bankAccounts),
               transactions |-> 0]
  /\ pending = NoPending
  /\ clock = c
  /\ stamps = [users |-> [i \in DOMAIN users |-> Stamp0],
               categories |-> [i \in DOMAIN categories |-> Stamp0],
               bankAccounts |-> [i \in DOMAIN bankAccounts |-> Stamp0],
               transactions |-> EmptyTable]
  /\ resp = NoCall

Init == Start(0)

\* the response leaves the server; the next request can be served
Respond ==
  /\ resp # NoCall
  /\ resp' = NoCall
  /\ UNCHANGED <<scope, rev, users, categories, bankAccounts, transactions,
                 issued, pending, clock, stamps>>

UsersNext ==
  \/ UsersCreate
  \/ UsersFindAll
  \/ UsersFindOne
  \/ UsersFindOneByEmail
  \/ UsersUpdate
  \/ UsersRemove
  \/ UsersValidateCredentials

Next ==
  \/ UsersNext
  \/ CategoriesNext
  \/ BankNext
  \/ TransactionsNext
  \/ Respond

Spec == Init /\ [][Next]_vars

(***************************************************************************)
(* Overlapping requests. update and remove await findOne(id) and then      *)
(* await the store's update or delete: other requests are served between   *)
(* the two. The DTO is first read after the check, so it is drawn when the *)
(* call resumes.                                                           *)
(***************************************************************************)
\* the call op(id) of svc is suspended after its findOne(id) returned a row
Suspend(svc, op, id) ==
  /\ pending' = [svc |-> svc, op |-> op, id |-> id]
  /\ UNCHANGED <<scope, rev, users, categories, bankAccounts, transactions,
                 issued, clock, stamps, resp>>

\* update(id, dto) up to the return of its findOne(id)
UsersUpdateAwait ==
  /\ Serving("users") /\ pending = NoPending
  /\ \E id \in Ids :
    LET chk == Users_findOne(users, issued.users, id, "none")
    IN chk.out.kind = "ok" /\ Suspend("users", "update", id)

\* the rest of that update: hash, store update, catch
UsersUpdateResume ==
  /\ Serving("users")
  /\ pending.svc = "users" /\ pending.op = "update"
  /\ \E dto \in UpdateUserDtos, fault \in {"none", "db", "hash"} :
    /\ fault = "hash" => (rev # "head" /\ "password" \in DOMAIN dto)
    /\ fault # "none" => dto = [password |-> "p1"]
    /\ LET r == Users_updateWrite(rev, users, issued.users, pending.id, dto,
                                  fault)
       IN /\ users' = r.tbl
          /\ Timed("users", "update", pending.id, r)
          /\ resp' = Call("users", "update", pending.id, dto, fault,
                          r.out, r.ret,
                          UsersController_handle(r.out, "Error updating user"))
    /\ pending' = NoPending
    /\ UNCHANGED <<scope, rev, categories, bankAccounts, transactions, issued>>

\* remove(id) up to the return of its findOne(id)
UsersRemoveAwait ==
  /\ Serving("users") /\ pending = NoPending
  /\ \E id \in Ids :
    LET chk == Users_findOne(users, issued.users, id, "none")
    IN chk.out.kind = "ok" /\ Suspend("users", "remove", id)

\* the rest of that remove: store delete, catch
UsersRemoveResume ==
  /\ Serving("users")
  /\ pending.svc = "users" /\ pending.op = "remove"
  /\ \E fault \in {"none", "db"} :
    LET r == Users_removeWrite(users, issued.users, pending.id, bankAccounts,
                               fault)
    IN /\ users' = r.tbl
       /\ Timed("users", "remove", pending.id, r)
       /\ resp' = Call("users", "remove", pending.id, NoArg, fault,
                       r.out, r.ret,
                       UsersController_handle(r.out, "Error deleting user"))
  /\ pending' = NoPending
  /\ UNCHANGED <<scope, rev, categories, bankAccounts, transactions, issued>>

\* CategoriesService.update(id, dto) up to the return of its findOne(id)
CategoriesUpdateAwait ==
  /\ Serving("categories") /\ pending = NoPending
  /\ \E id \in Ids :
    LET chk == Categories_findOne(categories, issued.categories, id, "none")
    IN chk.out.kind = "ok" /\ Suspend("categories", "update", id)

\* the rest of that update: store update, catch
CategoriesUpdateResume ==
  /\ Serving("categories")
  /\ pending.svc = "categories" /\ pending.op = "update"
  /\ \E dto \in UpdateCategoryDtos, fault \in {"none", "db"} :
    /\ fault # "none" => dto = [name |-> "n1"]
    /\ LET r == Categories_updateWrite(categories, issued.categories,
                                       pending.id, dto, fault)
       IN /\ categories' = r.tbl
          /\ Timed("categories", "update", pending.id, r)
          /\ resp' = Call("categories", "update", pending.id, dto,
                       fault, r.out, r.ret,
                       CategoriesController_handle(r.out,
                                                   "Error updating category"))
  /\ pending' = NoPending
  /\ UNCHANGED <<scope, rev, users, bankAccounts, transactions, issued>>

\* CategoriesService.remove(id) up to the return of its findOne(id)
CategoriesRemoveAwait ==
  /\ Serving("categories") /\ pending = NoPending
  /\ \E id \in Ids :
    LET chk == Categories_findOne(categories, issued.categories, id, "none")
    IN chk.out.kind = "ok" /\ Suspend("categories", "remove", id)

\* the rest of that remove: store delete, catch
CategoriesRemoveResume ==
  /\ Serving("categories")
  /\ pending.svc = "categories" /\ pending.op = "remove"
  /\ \E fault \in {"none", "db"} :
    LET r == Categories_removeWrite(categories, issued.categories, pending.id,
                                    transactions, fault)
    IN /\ categories' = r.tbl
       /\ Timed("categories", "remove", pending.id, r)
       /\ resp' = Call("categories", "remove", pending.id, NoArg,
                    fault, r.out, r.ret,
                    CategoriesController_handle(r.out,
                                                "Error deleting category"))
  /\ pending' = NoPending
  /\ UNCHANGED <<scope, rev, users, bankAccounts, transactions, issued>>

\* TransactionsService.update(id, dto) up to the return of its findOne(id)
TransactionsUpdateAwait ==
  /\ Serving("transactions") /\ pending = NoPending
  /\ \E id \in Ids :
    LET chk == Transactions_findOne(transactions, issued.transactions, id,
                                    categories, "none")
    IN chk.out.kind = "ok" /\ Suspend("transactions", "update", id)

\* the rest of that update: date conversion, store update, catch
TransactionsUpdateResume ==
  /\ Serving("transactions")
  /\ pending.svc = "transactions" /\ pending.op = "update"
  /\ \E dto \in UpdateTransactionDtos, fault \in {"none", "db"} :
    /\ fault # "none" => dto = [amount |-> 10]
    /\ LET r == Transactions_updateWrite(transactions, issued.transactions,
                                         pending.id, dto, categories,
                                         bankAccounts, fault)
       IN /\ transactions' = r.tbl
          /\ Timed("transactions", "update", pending.id, r)
          /\ resp' = Call("transactions", "update", pending.id, dto,
                       fault, r.out, r.ret,
                       TransactionsController_handle(r.out,
                         "Error updating transaction"))
  /\ pending' = NoPending
  /\ UNCHANGED <<scope, rev, users, categories, bankAccounts, issued>>

\* TransactionsService.remove(id) up to the return of its findOne(id)
TransactionsRemoveAwait ==
  /\ Serving("transactions") /\ pending = NoPending
  /\ \E id \in Ids :
    LET chk == Transactions_findOne(transactions, issued.transactions, id,
                                    categories, "none")
    IN chk.out.kind = "ok" /\ Suspend("transactions", "remove", id)

\* the rest of that remove: store delete, catch
TransactionsRemoveResume ==
  /\ Serving("transactions")
  /\ pending.svc = "transactions" /\ pending.op = "remove"
  /\ \E fault \in {"none", "db"} :
    LET r == Transactions_removeWrite(transactions, issued.transactions,
                                      pending.id, fault)
    IN /\ transactions' = r.tbl
       /\ Timed("transactions", "remove", pending.id, r)
       /\ resp' = Call("transactions", "remove", pending.id, NoArg,
                    fault, r.out, r.ret,
                    TransactionsController_handle(r.out,
                      "Error deleting transaction"))
  /\ pending' = NoPending
  /\ UNCHANGED <<scope, rev, users, categories, bankAccounts, issued>>

\* the services whose overlapping requests are explored
OverlapScopes == {"users", "categories", "transactions"}
\* two transactions stored before the overlapping requests begin
SeedTransactions ==
  (1 :> [bankAccountId |-> 1, date |-> ToDate("2025-01-01T00:00:00.000Z"),
         amount |-> 10, type |-> "income", categoryId |-> 1])
  @@ (2 :> [bankAccountId |-> 2, date |-> ToDate("2025-02-01T00:00:00.000Z"),
            amount |-> 10, type |-> "expense", categoryId |-> 2])

InitOverlap ==
  /\ scope \in OverlapScopes
  /\ rev \in (IF scope = "users" THEN Revs ELSE {"head"})
  /\ users = IF scope = "transactions" THEN SeedUsers(rev) ELSE EmptyTable
  /\ categories = IF scope = "transactions" THEN SeedCategories ELSE EmptyTable
  /\ bankAccounts = IF scope = "transactions"
                      THEN SeedBankAccounts(1) ELSE EmptyTable
  /\ transactions = IF scope = "transactions"
                      THEN SeedTransactions ELSE EmptyTable
  /\ issued = [users |-> Cardinality(DOMAIN users),
               categories |-> Cardinality(DOMAIN categories),
               bankAccounts |-> Cardinality(DOMAIN bankAccounts),
               transactions |-> Cardinality(DOMAIN transactions)]
  /\ pending = NoPending
  /\ clock = 0
  /\ stamps = [users |-> [i \in DOMAIN users |-> Stamp0],
               categories |-> [i \in DOMAIN categories |-> Stamp0],
               bankAccounts |-> [i \in DOMAIN bankAccounts |-> Stamp0],
               transactions |-> [i \in DOMAIN transactions |-> Stamp0]]
  /\ resp = NoCall

\* reads change nothing and are left out; the transactions are the stored
\* ones: none is created
NextOverlap ==
  \/ UsersCreate
  \/ UsersUpdate
  \/ UsersRemove
  \/ UsersUpdateAwait
  \/ UsersUpdateResume
  \/ UsersRemoveAwait
  \/ UsersRemoveResume
  \/ CategoriesCreate
  \/ CategoriesUpdate
  \/ CategoriesRemove
  \/ CategoriesUpdateAwait
  \/ CategoriesUpdateResume
  \/ CategoriesRemoveAwait
  \/ CategoriesRemoveResume
  \/ TransactionsUpdate
  \/ TransactionsRemove
  \/ TransactionsUpdateAwait
  \/ TransactionsUpdateResume
  \/ TransactionsRemoveAwait
  \/ TransactionsRemoveResume
  \/ Respond

SpecOverlap == InitOverlap /\ [][NextOverlap]_vars

(***************************************************************************)
(* Timestamps. The behaviours of this specification tell the instants of   *)
(* the writes apart: the clock starts at 1 and every successful create or  *)
(* update happens at a later instant than the one before.                  *)
(***************************************************************************)
InitStamps == Start(1)

(***************************************************************************)
(* A client that creates a row and, on success, gets it by the id that     *)
(* create returned, with no request in between. The call recorded has the  *)
(* outcome of the get and both returned records.                           *)
(***************************************************************************)
\* the result of create r1 followed by the result r2 of the get
Both(r1, r2) == Result(r1.tbl, r1.n, r2.out, r1.ret \o r2.ret)

UsersCreateThenFindOne ==
  /\ Serving("users")
  /\ \E dto \in CreateUserDtos :
    /\ CanCreate("users")
    /\ LET r1 == Users_create(rev, users, issued.users, dto, "none")
       IN /\ r1.out.kind = "ok"
          /\ LET r2 == Users_findOne(r1.tbl, r1.n, r1.ret[1].id, "none")
             IN UsersDone("createThenFindOne", r1.ret[1].id, dto, "none",
                  Both(r1, r2),
                  UsersController_handle(r2.out, "Error getting user"))

CategoriesCreateThenFindOne ==
  /\ Serving("categories")
  /\ \E dto \in CreateCategoryDtos :
    /\ CanCreate("categories")
    /\ LET r1 == Categories_create(categories, issued.categories, dto, "none")
       IN /\ r1.out.kind = "ok"
          /\ LET r2 == Categories_findOne(r1.tbl, r1.n, r1.ret[1].id, "none")
             IN CategoriesDone("createThenFindOne", r1.ret[1].id, dto, "none",
                  Both(r1, r2),
                  CategoriesController_handle(r2.out,
                                              "Error finding category"))

BankCreateThenFindOne ==
  /\ Serving("bankAccount")
  /\ \E userId \in SeedIds, dto \in CreateBankAccountDtos :
    /\ CanCreate("bankAccounts")
    /\ LET r1 == BankAccount_create(bankAccounts, issued.bankAccounts, userId,
                                    dto, users, "none")
       IN /\ r1.out.kind = "ok"
          /\ LET r2 == BankAccount_findOne(r1.tbl, r1.n, userId,
                                           r1.ret[1].id, "none")
             IN BankDone("createThenFindOne", r1.ret[1].id,
                  [userId |-> userId, fields |-> dto], "none", Both(r1, r2))

TransactionsCreateThenFindOne ==
  /\ Serving("transactions")
  /\ \E dto \in CreateTransactionDtos :
    /\ CanCreate("transactions")
    /\ LET r1 == Transactions_create(transactions, issued.transactions, dto,
                                     categories, bankAccounts, "none")
       IN /\ r1.out.kind = "ok"
          /\ LET r2 == Transactions_findOne(r1.tbl, r1.n, r1.ret[1].id,
                                            categories, "none")
             IN TransactionsDone("createThenFindOne", r1.ret[1].id, dto,
                  "none", Both(r1, r2),
                  TransactionsController_handle(r2.out,
                                                "Error finding transaction"))

NextStamps ==
  \/ UsersCreate
  \/ UsersUpdate
  \/ CategoriesCreate
  \/ CategoriesUpdate
  \/ BankCreate
  \/ BankUpdate
  \/ TransactionsCreate
  \/ TransactionsUpdate
  \/ UsersCreateThenFindOne
  \/ CategoriesCreateThenFindOne
  \/ BankCreateThenFindOne
  \/ TransactionsCreateThenFindOne
  \/ UsersFindAll
  \/ Respond

SpecStamps == InitStamps /\ [][NextStamps]_vars

(***************************************************************************)
(* The four services over one database: users, categories and bank         *)
(* accounts are stored, transactions are created, changed and removed, and *)
(* the rows they refer to are removed.                                     *)
(***************************************************************************)
InitIntegrity ==
  /\ scope = "all"
  /\ rev = "head"
  /\ users = SeedUsers(rev)
  /\ categories = SeedCategories
  /\ bankAccounts = SeedBankAccounts(2)
  /\ transactions = EmptyTable
  /\ issued = [users |-> Cardinality(DOMAIN users),
               categories |-> Cardinality(DOMAIN categories),
               bankAccounts |-> Cardinality(DOMAIN bankAccounts),
               transactions |-> 0]
  /\ pending = NoPending
  /\ clock = 0
  /\ stamps = [users |-> [i \in DOMAIN users |-> Stamp0],
               categories |-> [i \in DOMAIN categories |-> Stamp0],
               bankAccounts |-> [i \in DOMAIN bankAccounts |-> Stamp0],
               transactions |-> EmptyTable]
  /\ resp = NoCall

NextIntegrity ==
  \/ TransactionsCreate
  \/ TransactionsUpdate
  \/ TransactionsRemove
  \/ UsersRemove
  \/ CategoriesRemove
  \/ BankRemove
  \/ Respond

SpecIntegrity == InitIntegrity /\ [][NextIntegrity]_vars

(***************************************************************************)
(* Two update calls on one row whose requests overlap. Both existence      *)
(* checks return the row, then the store serves the two update calls one   *)
(* after the other, in either order (the DTOs are listed in that order).   *)
(***************************************************************************)
InitTwoUpdates ==
  /\ scope \in Scopes
  /\ rev \in (IF scope = "users" THEN Revs ELSE {"head"})
  /\ users = SeedUsers(rev)
  /\ categories = SeedCategories
  /\ bankAccounts = SeedBankAccounts(2)
  /\ transactions = SeedTransactions
  /\ issued = [users |-> Cardinality(DOMAIN users),
               categories |-> Cardinality(DOMAIN categories),
               bankAccounts |-> Cardinality(DOMAIN bankAccounts),
               transactions |-> Cardinality(DOMAIN transactions)]
  /\ pending = NoPending
  /\ clock = 0
  /\ stamps = [users |-> [i \in DOMAIN users |-> Stamp0],
               categories |-> [i \in DOMAIN categories |-> Stamp0],
               bankAccounts |-> [i \in DOMAIN bankAccounts |-> Stamp0],
               transactions |-> [i \in DOMAIN transactions |-> Stamp0]]
  /\ resp = NoCall

\* two requests that supply fields, and no field in common
DisjointPairs(D) ==
  {p \in D \X D : /\ DOMAIN p[1] # {} /\ DOMAIN p[2] # {}
                  /\ DOMAIN p[1] \cap DOMAIN p[2] = {}}
\* the result of the two store calls r1 then r2
Second(r1, r2) ==
  Result(r2.tbl, r2.n, IF r1.out.kind = "ok" THEN r2.out ELSE r1.out,
         r1.ret \o r2.ret)

UsersTwoUpdates ==
  /\ Serving("users")
  /\ \E id \in Ids, p \in DisjointPairs(UpdateUserDtos) :
    /\ Users_findOne(users, issued.users, id, "none").out.kind = "ok"
    /\ LET r1 == Users_updateWrite(rev, users, issued.users, id, p[1], "none")
           r2 == Users_updateWrite(rev, r1.tbl, r1.n, id, p[2], "none")
       IN UsersDone("update||update", id, p, "none", Second(r1, r2), NoHttp)

CategoriesTwoUpdates ==
  /\ Serving("categories")
  /\ \E id \in Ids, p \in DisjointPairs(UpdateCategoryDtos) :
    /\ Categories_findOne(categories, issued.categories, id,
                          "none").out.kind = "ok"
    /\ LET r1 == Categories_updateWrite(categories, issued.categories, id,
                                        p[1], "none")
           r2 == Categories_updateWrite(r1.tbl, r1.n, id, p[2], "none")
       IN CategoriesDone("update||update", id, p, "none", Second(r1, r2),
                         NoHttp)

\* BankAccountService.update has no existence check: the id is a stored one
BankTwoUpdates ==
  /\ Serving("bankAccount")
  /\ \E userId \in SeedIds, id \in Ids,
        p \in DisjointPairs(UpdateBankAccountDtos) :
    /\ id \in DOMAIN bankAccounts
    /\ LET r1 == BankAccount_update(bankAccounts, issued.bankAccounts, userId,
                                    id, p[1], "none")
           r2 == BankAccount_update(r1.tbl, r1.n, userId, id, p[2], "none")
       IN BankDone("update||update", id, p, "none", Second(r1, r2))

TransactionsTwoUpdates ==
  /\ Serving("transactions")
  /\ \E id \in Ids, p \in DisjointPairs(UpdateTransactionDtos) :
    /\ Transactions_findOne(transactions, issued.transactions, id, categories,
                            "none").out.kind = "ok"
    /\ LET r1 == Transactions_updateWrite(transactions, issued.transactions,
                                          id, p[1], categories, bankAccounts,
                                          "none")
           r2 == Transactions_updateWrite(r1.tbl, r1.n, id, p[2], categories,
                                          bankAccounts, "none")
       IN TransactionsDone("update||update", id, p, "none", Second(r1, r2),
                           NoHttp)

NextTwoUpdates ==
  \/ UsersTwoUpdates
  \/ CategoriesTwoUpdates
  \/ BankTwoUpdates
  \/ TransactionsTwoUpdates
  \/ Respond

SpecTwoUpdates == InitTwoUpdates /\ [][NextTwoUpdates]_vars

(***************************************************************************)
(* Paging. The users list over a table that holds one user more than the   *)
(* page size the endpoint documents as its maximum.                        *)
(***************************************************************************)
\* "Maximum page size is 100 users"
MaxPageSize == 100
\* findAll(skip = 0, take = 10)
DefaultSkip == 0
DefaultTake == 10

ManyUsers(rv) ==
  [i \in 1..(MaxPageSize + 1) |->
     [name |-> "n1", email |-> "e" \o ToString(i),
      password |-> StoredPassword(rv, "p1")]]

InitPaging ==
  /\ scope = "users"
  /\ rev \in Revs
  /\ users = ManyUsers(rev)
  /\ categories = EmptyTable
  /\ bankAccounts = EmptyTable
  /\ transactions = EmptyTable
  /\ issued = [users |-> MaxPageSize + 1, categories |-> 0,
               bankAccounts |-> 0, transactions |-> 0]
  /\ pending = NoPending
  /\ clock = 0
  /\ stamps = [users |-> [i \in DOMAIN users |-> Stamp0],
               categories |-> EmptyTable, bankAccounts |-> EmptyTable,
               transactions |-> EmptyTable]
  /\ resp = NoCall

\* two of the orders the store may return the rows of tbl in (its ids are
\* 1..n): by id, ascending and descending
StoreOrders(tbl) ==
  LET n == Cardinality(DOMAIN tbl)
  IN {[k \in 1..n |-> k], [k \in 1..n |-> n + 1 - k]}

\* usersService.findAll() with no argument
UsersFindAllDefaults ==
  /\ Serving("users")
  /\ \E order \in StoreOrders(users) :
    LET r == Users_findAll(users, issued.users, DefaultSkip, DefaultTake,
                           order, "none")
    IN UsersDone("findAll", 0, NoArg, "none", r, NoHttp)

\* GET /users?skip=&take= with any integers for skip and take
UsersFindAllPage ==
  /\ Serving("users")
  /\ \E skip \in 0..MaxSkip,
        take \in {1, DefaultTake, MaxPageSize, MaxPageSize + 1},
        order \in StoreOrders(users) :
    LET r == Users_findAll(users, issued.users, skip, take, order, "none")
    IN UsersDone("findAll", 0, [skip |-> skip, take |-> take], "none", r,
                 UsersController_handle(r.out, "Error listing users"))

NextPaging ==
  \/ UsersFindAllDefaults
  \/ UsersFindAllPage
  \/ Respond

SpecPaging == InitPaging /\ [][NextPaging]_vars

(***************************************************************************)
(* Paging of the transactions of a user who has one transaction more than  *)
(* the default page holds; one more transaction is another user's.         *)
(***************************************************************************)
ManyTransactions ==
  [i \in 1..(DefaultTake + 2) |->
     [bankAccountId |-> IF i <= DefaultTake + 1 THEN 1 ELSE 2,
      date |-> ToDate(IF i % 2 = 1 THEN "2025-01-01T00:00:00.000Z"
                      ELSE "2025-02-01T00:00:00.000Z"),
      amount |-> 10, type |-> "income", categoryId |-> 1]]

InitHistory ==
  /\ scope = "transactions"
  /\ rev = "head"
  /\ users = SeedUsers(rev)
  /\ categories = SeedCategories
  /\ bankAccounts = SeedBankAccounts(2)
  /\ transactions = ManyTransactions
  /\ issued = [users |-> Cardinality(DOMAIN users),
               categories |-> Cardinality(DOMAIN categories),
               bankAccounts |-> Cardinality(DOMAIN bankAccounts),
               transactions |-> Cardinality(DOMAIN transactions)]
  /\ pending = NoPending
  /\ clock = 0
  /\ stamps = [users |-> [i \in DOMAIN users |-> Stamp0],
               categories |-> [i \in DOMAIN categories |-> Stamp0],
               bankAccounts |-> [i \in DOMAIN bankAccounts |-> Stamp0],
               transactions |-> [i \in DOMAIN transactions |-> Stamp0]]
  /\ resp = NoCall

\* the rows S of tbl by date descending, rows of equal date by id (ascending
\* if up, else descending)
RECURSIVE ByDate(_, _, _)
ByDate(tbl, S, up) ==
  IF S = {} THEN <<>>
  ELSE LET m == CHOOSE x \in S : \A y \in S :
                  \/ tbl[x].date > tbl[y].date
                  \/ /\ tbl[x].date = tbl[y].date
                     /\ IF up THEN x <= y ELSE x >= y
       IN <<m>> \o ByDate(tbl, S \ {m}, up)
\* orderBy: {date: 'desc'}: two of the orders the store may return
DateOrders(tbl, S) == {ByDate(tbl, S, TRUE), ByDate(tbl, S, FALSE)}

\* GET /transactions/user/:userId without skip and take: findByUserId(userId)
TransactionsFindByUserIdDefaults ==
  /\ Serving("transactions")
  /\ \E userId \in SeedIds \cup {GhostId} :
   \E order \in DateOrders(transactions,
                           TransactionsOf(transactions, bankAccounts, userId)) :
    LET r == Transactions_findByUserId(transactions, issued.transactions,
               userId, DefaultSkip, DefaultTake, order, categories,
               bankAccounts, "none")
    IN TransactionsDone("findByUserId", 0, [userId |-> userId], "none", r,
         TransactionsController_handle(r.out,
           "Error finding transactions by user ID"))

\* GET /transactions/user/:userId?skip=&take=
TransactionsFindByUserIdPage ==
  /\ Serving("transactions")
  /\ \E userId \in SeedIds \cup {GhostId}, skip \in 0..MaxSkip,
        take \in {1, DefaultTake, DefaultTake + 1} :
   \E order \in DateOrders(transactions,
                           TransactionsOf(transactions, bankAccounts, userId)) :
    LET r == Transactions_findByUserId(transactions, issued.transactions,
               userId, skip, take, order, categories, bankAccounts, "none")
    IN TransactionsDone("findByUserId", 0,
         [userId |-> userId, skip |-> skip, take |-> take], "none", r,
         TransactionsController_handle(r.out,
           "Error finding transactions by user ID"))

NextHistory ==
  \/ TransactionsFindByUserIdDefaults
  \/ TransactionsFindByUserIdPage
  \/ Respond

SpecHistory == InitHistory /\ [][NextHistory]_vars

(***************************************************************************)
(* Properties                                                              *)
(***************************************************************************)
\* this step is the call op of service svc, from request to outcome
Called(svc, op) == resp = NoCall /\ resp'.svc = svc /\ resp'.op = op
\* no record of the returned value has a password field
NoPasswordIn(ret) == \A k \in DOMAIN ret : "password" \notin DOMAIN ret[k]
\* no two rows of the users table have the same email
UniqueEmails(tbl) ==
  \A i, j \in DOMAIN tbl : tbl[i].email = tbl[j].email => i = j

C2_StoredPasswordIsDigest ==
  [][/\ (Called("users", "create") /\ resp'.out.kind = "ok")
        => users'[resp'.ret[1].id].password = bcryptHash(resp'.arg.password)
     /\ (Called("users", "update") /\ resp'.out.kind = "ok")
        => users'[resp'.id].password =
             (IF "password" \in DOMAIN resp'.arg
                THEN bcryptHash(resp'.arg.password)
                ELSE users[resp'.id].password)]_vars

\* C3: validateCredentials with the email of a user and a wrong password has
\* the same Unauthorized outcome as with an email of no user.
C3_SameUnauthorized ==
  (/\ resp.svc = "users" /\ resp.op = "validateCredentials"
   /\ resp.fault = "none"
   /\ \/ ~EmailTaken(users, resp.arg.email, 0)
      \/ \E i \in DOMAIN users :
           /\ users[i].email = resp.arg.email
           /\ ~bcryptCompare(resp.arg.password, users[i].password))
    => resp.out = Unauthorized("Invalid credentials")

\* C4: a create whose email is held by a user leaves the users table as it
\* was (no user added, none changed), and, the store and bcrypt working, it
\* fails with UnprocessableEntityException 'Email is already in use'.
C4_CreateDuplicateEmail ==
  [][(Called("users", "create") /\ EmailTaken(users, resp'.arg.email, 0))
       => /\ users' = users
          /\ resp'.out.kind # "ok"
          /\ resp'.fault = "none"
               => resp'.out = Unprocessable("Email is already in use")]_vars
\* a create was refused for its email while a user held it
C4_Witness ==
  /\ resp.svc = "users" /\ resp.op = "create" /\ resp.fault = "none"
  /\ resp.out = Unprocessable("Email is already in use")
  /\ EmailTaken(users, resp.arg.email, 0)

\* C5: in every reachable state, whatever the interleaving of create, update
\* and remove (their existence checks and mutations included), no two users
\* have the same email.
C5_UniqueEmails == UniqueEmails(users)
\* two users are stored and an update that resumed after other requests was
\* refused for its email
C5_Witness ==
  /\ Cardinality(DOMAIN users) = 2
  /\ resp.svc = "users" /\ resp.op = "update"
  /\ resp.out = Unprocessable("Email is already in use")
  /\ \E i \in DOMAIN users : i # resp.id /\ users[i].email = resp.arg.email

\* C6: an update of an existing user to an email held by a different user
\* leaves the users table as it was (both records unchanged), and, the store
\* and bcrypt working, it fails with UnprocessableEntityException.
C6_UpdateDuplicateEmail ==
  [][(/\ Called("users", "update")
      /\ resp'.id \in DOMAIN users
      /\ "email" \in DOMAIN resp'.arg
      /\ EmailTaken(users, resp'.arg.email, resp'.id))
       => /\ users' = users
          /\ resp'.out.kind # "ok"
          /\ resp'.fault = "none"
               => resp'.out = Unprocessable("Email is already in use")]_vars
\* an update of a stored user was refused for the email of another one
C6_Witness ==
  /\ resp.svc = "users" /\ resp.op = "update" /\ resp.fault = "none"
  /\ resp.out.kind = "Unprocessable"
  /\ resp.id \in DOMAIN users
  /\ \E i \in DOMAIN users :
       /\ i # resp.id /\ users[i].email = resp.arg.email
       /\ users[resp.id].email # resp.arg.email

\* the table a service works on
TableOf(svc) ==
  CASE svc = "users" -> users
    [] svc = "categories" -> categories
    [] svc = "bankAccount" -> bankAccounts
    [] svc = "transactions" -> transactions
AllRowsUnchanged == UNCHANGED <<users, categories, bankAccounts, transactions>>

\* C7: in the users, categories and transactions services, findOne, update
\* and remove called with an id of no row leave every stored row unchanged
\* and, the store working, fail with NotFound whatever fields are supplied.
C7_NotFoundOnMissingId ==
  [][\A svc \in {"users", "categories", "transactions"},
        op \in {"findOne", "update", "remove"} :
       (Called(svc, op) /\ resp'.id \notin DOMAIN TableOf(svc))
         => /\ AllRowsUnchanged
            /\ resp'.out.kind # "ok"
            /\ resp'.fault = "none" => resp'.out.kind = "NotFound"]_vars
\* an update that supplied fields was refused with NotFound while other
\* transactions were stored
C7_Witness ==
  /\ resp.svc = "transactions" /\ resp.op = "update" /\ resp.fault = "none"
  /\ resp.out.kind = "NotFound"
  /\ DOMAIN resp.arg # {}
  /\ resp.id \notin DOMAIN transactions /\ DOMAIN transactions # {}

\* C8: in the bank-account service, findOne, update and remove called with
\* an id of no bank account fail with NotFound, as the other services do.
C8_BankAccountNotFound ==
  [][\A op \in {"findOne", "update", "remove"} :
       (/\ Called("bankAccount", op)
        /\ resp'.id \notin DOMAIN bankAccounts
        /\ resp'.fault = "none")
         => resp'.out.kind = "NotFound"]_vars

\* C9: a NotFound or duplicate-conflict error of a service reaches the HTTP
\* caller as that same error through the users, categories and transactions
\* controllers.
C9_ErrorKindReachesCaller ==
  (/\ resp.svc \in {"users", "categories", "transactions"}
   /\ resp.http # NoHttp
   /\ resp.out.kind \in {"NotFound", "Unprocessable"})
    => resp.http = resp.out

\* C10: whatever the service and the method, a persistence error that is
\* neither a uniqueness violation nor a not-found outcome leaves the service
\* as InternalServerErrorException, and no raw error of the store ever does.
C10_StorageFaultWrapped ==
  /\ resp.fault \in {"db", "find"} => resp.out.kind = "Internal"
  /\ resp.out.kind # "Raw"

IdsIn(ret) == {ret[k].id : k \in DOMAIN ret}
\* the length of the page [skip, skip + take) of total rows
PageLen(total, skip, take) ==
  IF total - skip < 0 THEN 0
  ELSE IF total - skip < take THEN total - skip ELSE take

EntityServices == {"users", "categories", "bankAccount", "transactions"}
TableName(svc) == IF svc = "bankAccount" THEN "bankAccounts" ELSE svc
\* the fields an update call supplied (userId is a parameter of the
\* bank-account methods, not a field of their DTO)
Supplied(call) ==
  DOMAIN call.arg \ (IF call.svc = "bankAccount" THEN {"userId"} ELSE {})
\* a successful update of svc touched nothing but the supplied fields of its
\* row, the stamps of that row left aside
UpdateFrame(svc) ==
  LET t == TableOf(svc)
      id == resp'.id
  IN /\ DOMAIN TableOf(svc)' = DOMAIN t
     /\ \A i \in DOMAIN t \ {id} :
          /\ TableOf(svc)'[i] = t[i]
          /\ stamps'[TableName(svc)][i] = stamps[TableName(svc)][i]
     /\ \A f \in DOMAIN t[id] \ Supplied(resp') : TableOf(svc)'[id][f] = t[id][f]
     /\ \A other \in EntityServices \ {svc} :
          /\ TableOf(other)' = TableOf(other)
          /\ stamps'[TableName(other)] = stamps[TableName(other)]

\* C13 (as stated): a successful update changes only the supplied fields:
\* every field of the row that was not supplied, updatedAt and createdAt
\* included, and every other row keep their values.
C13_UpdateChangesOnlySupplied ==
  [][\A svc \in EntityServices :
       (Called(svc, "update") /\ resp'.out.kind = "ok")
         => /\ UpdateFrame(svc)
            /\ stamps'[TableName(svc)][resp'.id]
                 = stamps[TableName(svc)][resp'.id]]_vars

\* C13 (amended): a successful update changes only the supplied fields and
\* updatedAt, which the store sets to the instant of the update: every other
\* field of the row, createdAt included, and every other row keep their
\* values.
C13_UpdateFrameButUpdatedAt ==
  [][\A svc \in EntityServices :
       (Called(svc, "update") /\ resp'.out.kind = "ok")
         => /\ UpdateFrame(svc)
            /\ stamps'[TableName(svc)][resp'.id].createdAt
                 = stamps[TableName(svc)][resp'.id].createdAt
            /\ stamps'[TableName(svc)][resp'.id].updatedAt = clock'
            /\ clock' > clock]_vars
\* a transaction was updated with a date only while another one was stored
C13_Witness ==
  /\ resp.svc = "transactions" /\ resp.op = "update" /\ resp.out.kind = "ok"
  /\ DOMAIN resp.arg = {"date"}
  /\ Cardinality(DOMAIN transactions) = 2
  /\ stamps.transactions[resp.id].updatedAt = clock
  /\ stamps.transactions[resp.id].createdAt < clock

\* C14 (as stated): create followed by get on the returned id succeeds and
\* yields a record equal to the one create returned.
C14_CreateThenGetEqual ==
  resp.op = "createThenFindOne"
    => /\ resp.out = Ok
       /\ Len(resp.ret) = 2
       /\ resp.ret[2] = resp.ret[1]

\* C14 (amended): create followed by get on the returned id succeeds, and
\* every field of the record create returned has the same value in the
\* record get yields; neither has a password; the record of the
\* transactions get has one field more, the joined category.
C14_CreateThenGetAgree ==
  resp.op = "createThenFindOne"
    => /\ resp.out = Ok
       /\ Len(resp.ret) = 2
       /\ resp.ret[1].id = resp.id
       /\ \A f \in DOMAIN resp.ret[1] :
            f \in DOMAIN resp.ret[2] /\ resp.ret[2][f] = resp.ret[1][f]
       /\ DOMAIN resp.ret[2] \ DOMAIN resp.ret[1] =
            (IF resp.svc = "transactions" THEN {"category"} ELSE {})
       /\ NoPasswordIn(resp.ret)
\* a second category was created and then read back
C14_Witness ==
  /\ resp.svc = "categories" /\ resp.op = "createThenFindOne"
  /\ Len(resp.ret) = 2 /\ resp.ret[2].description = resp.arg.description
  /\ Cardinality(DOMAIN categories) = 2

\* C15: in the revision that has validateCredentials, a successful create, or
\* update supplying a password, with plaintext p stores the digest of p; and
\* for a user whose stored digest is that of p, validateCredentials with the
\* user's email succeeds with p, returning that user without the password,
\* and does not succeed with any other password (the comparison working).
C15_CredentialRoundTrip ==
  [][rev = "part1" =>
       /\ (Called("users", "create") /\ resp'.out.kind = "ok")
            => users'[resp'.ret[1].id].password = bcryptHash(resp'.arg.password)
       /\ (/\ Called("users", "update") /\ resp'.out.kind = "ok"
           /\ "password" \in DOMAIN resp'.arg)
            => users'[resp'.id].password = bcryptHash(resp'.arg.password)
       /\ (Called("users", "validateCredentials") /\ resp'.fault = "none")
            => \A i \in DOMAIN users, p \in Plain :
                 (/\ users[i].email = resp'.arg.email
                  /\ users[i].password = bcryptHash(p))
                   => IF resp'.arg.password = p
                        THEN /\ resp'.out = Ok
                             /\ Len(resp'.ret) = 1
                             /\ resp'.ret[1].id = i
                             /\ resp'.ret[1].email = users[i].email
                             /\ NoPasswordIn(resp'.ret)
                        ELSE resp'.out.kind # "ok"]_vars
\* the credentials a user was created with were accepted
C15_Witness ==
  /\ resp.svc = "users" /\ resp.op = "validateCredentials"
  /\ resp.out = Ok /\ Len(resp.ret) = 1
  /\ \E i \in DOMAIN users :
       /\ users[i].email = resp.arg.email
       /\ users[i].password = bcryptHash(resp.arg.password)
       /\ resp.ret[1].id = i

\* C16: validateCredentials ends with InternalServerErrorException 'Error
\* validating credentials' only when bcrypt.compare itself failed; a password
\* that does not match is a different outcome.
C16_FaultOnlyWhenCompareFails ==
  (/\ resp.svc = "users" /\ resp.op = "validateCredentials"
   /\ resp.out = Internal("Error validating credentials"))
    => resp.fault = "compare"

\* C17: findOne(userId, id) of the bank accounts returns an account only if
\* the account has that id and that owner; for the id of an account of
\* another user it returns no account.
C17_FindOneMatchesIdAndOwner ==
  (resp.svc = "bankAccount" /\ resp.op = "findOne" /\ resp.fault = "none")
    => /\ resp.out = Ok
       /\ \A k \in DOMAIN resp.ret :
            /\ resp.ret[k].id = resp.id
            /\ resp.ret[k].userId = resp.arg.userId
            /\ resp.ret[k] = WithId(bankAccounts, resp.id)
       /\ (/\ resp.id \in DOMAIN bankAccounts
           /\ bankAccounts[resp.id].userId = resp.arg.userId)
            => Len(resp.ret) = 1
       /\ (/\ resp.id \in DOMAIN bankAccounts
           /\ bankAccounts[resp.id].userId # resp.arg.userId)
            => resp.ret = <<>>
\* findOne was asked, by a user, for the account of another user
C17_Witness ==
  /\ resp.svc = "bankAccount" /\ resp.op = "findOne" /\ resp.fault = "none"
  /\ resp.id \in DOMAIN bankAccounts
  /\ resp.arg.userId \in DOMAIN users
  /\ bankAccounts[resp.id].userId # resp.arg.userId
  /\ resp.ret = <<>>

\* C18: create(u, fields) stores the fields with userId u, whatever userId
\* the fields carry; findAll(userId) returns the accounts whose userId is
\* the argument, each once, and no other account.
C18_FindAllOfUser ==
  [][/\ (Called("bankAccount", "create") /\ resp'.out.kind = "ok")
          => LET id == resp'.ret[1].id
             IN /\ id \notin DOMAIN bankAccounts
                /\ bankAccounts'[id].userId = resp'.arg.userId
                /\ \A f \in DOMAIN resp'.arg.fields \ {"userId"} :
                     bankAccounts'[id][f] = resp'.arg.fields[f]
                /\ \A i \in DOMAIN bankAccounts :
                     bankAccounts'[i] = bankAccounts[i]
     /\ (Called("bankAccount", "findAll") /\ resp'.fault = "none")
          => /\ resp'.out = Ok
             /\ IdsIn(resp'.ret) =
                  {i \in DOMAIN bankAccounts :
                     bankAccounts[i].userId = resp'.arg.userId}
             /\ Len(resp'.ret) = Cardinality(IdsIn(resp'.ret))
             /\ \A k \in DOMAIN resp'.ret :
                  resp'.ret[k] = WithId(bankAccounts, resp'.ret[k].id)]_vars
\* findAll returned a user's account while another user had one too
C18_Witness ==
  /\ resp.svc = "bankAccount" /\ resp.op = "findAll" /\ resp.fault = "none"
  /\ Len(resp.ret) = 1
  /\ \E i \in DOMAIN bankAccounts : bankAccounts[i].userId # resp.arg.userId

\* C19: update(userId, id, fields) and remove(userId, id) of the bank
\* accounts select the row by id alone: for the id of an account, whoever
\* owns it, update writes the fields and returns the row, and remove deletes
\* it (no transaction referring to it); what they do is determined by the
\* table, the id and the fields, not by userId.
C19_UpdateRemoveByIdAlone ==
  [][/\ (/\ Called("bankAccount", "update") /\ resp'.fault = "none"
         /\ resp'.id \in DOMAIN bankAccounts)
          => /\ resp'.out = Ok
             /\ DOMAIN bankAccounts' = DOMAIN bankAccounts
             /\ \A f \in DOMAIN bankAccounts[resp'.id] :
                  bankAccounts'[resp'.id][f] =
                    (IF f \in DOMAIN resp'.arg \ {"userId"}
                       THEN resp'.arg[f] ELSE bankAccounts[resp'.id][f])
             /\ resp'.ret = <<WithId(bankAccounts', resp'.id)>>
     /\ (/\ Called("bankAccount", "remove") /\ resp'.fault = "none"
         /\ resp'.id \in DOMAIN bankAccounts
         /\ Referencing(transactions, "bankAccountId", resp'.id) = {})
          => /\ resp'.out = Ok
             /\ DOMAIN bankAccounts' = DOMAIN bankAccounts \ {resp'.id}
     /\ (/\ Called("bankAccount", "update") \/ Called("bankAccount", "remove")
         /\ resp'.fault = "none"
         /\ resp'.id \notin DOMAIN bankAccounts)
          => /\ resp'.out = Raw("P2025")
             /\ bankAccounts' = bankAccounts]_vars
\* an update named by a user who does not own the account was applied
C19_Witness ==
  /\ resp.svc = "bankAccount" /\ resp.op = "update" /\ resp.out = Ok
  /\ resp.id \in DOMAIN bankAccounts
  /\ resp.arg.userId \in DOMAIN users
  /\ bankAccounts[resp.id].userId # resp.arg.userId
  /\ "name" \in DOMAIN resp.arg
  /\ bankAccounts[resp.id].name = resp.arg.name

\* C20: when bcrypt.hash fails in create, or in an update that supplies a
\* password for an existing user, the call fails with
\* InternalServerErrorException 'Error hashing password', also when the
\* email is held by another user (so it is not the duplicate-email error),
\* and the users table is left as it was.
C20_HashingFailure ==
  [][(/\ resp'.fault = "hash"
      /\ \/ Called("users", "create")
         \/ /\ Called("users", "update")
            /\ "password" \in DOMAIN resp'.arg
            /\ resp'.id \in DOMAIN users)
       => /\ resp'.out = Internal("Error hashing password")
          /\ resp'.out # Unprocessable("Email is already in use")
          /\ resp'.http = resp'.out
          /\ resp'.ret = <<>>
          /\ users' = users]_vars
\* bcrypt.hash failed in a create whose email a user already held
C20_Witness ==
  /\ resp.svc = "users" /\ resp.op = "create" /\ resp.fault = "hash"
  /\ EmailTaken(users, resp.arg.email, 0)
  /\ resp.out = Internal("Error hashing password")

\* an id the store issued whose row is gone: ids are issued once, in order
Removed(svc, id) ==
  id \in 1..issued[TableName(svc)] /\ id \notin DOMAIN TableOf(svc)

\* C21: a successful remove(id) of the users, categories or transactions
\* service deletes the row of id and leaves every other row as it was; a
\* findOne, update or remove on the id of a removed row fails with NotFound
\* (the store working).
C21_RemovedIsNotFound ==
  [][\A svc \in {"users", "categories", "transactions"} :
       /\ (Called(svc, "remove") /\ resp'.out.kind = "ok")
            => /\ resp'.id \in DOMAIN TableOf(svc)
               /\ DOMAIN TableOf(svc)' = DOMAIN TableOf(svc) \ {resp'.id}
               /\ \A i \in DOMAIN TableOf(svc)' : TableOf(svc)'[i] = TableOf(svc)[i]
               /\ \A other \in EntityServices \ {svc} :
                    TableOf(other)' = TableOf(other)
               /\ issued' = issued
       /\ \A op \in {"findOne", "update", "remove"} :
            (Called(svc, op) /\ Removed(svc, resp'.id) /\ resp'.fault = "none")
              => /\ resp'.out.kind = "NotFound"
                 /\ AllRowsUnchanged]_vars
\* an update named the id of a removed transaction while another was stored
C21_Witness ==
  /\ resp.svc = "transactions" /\ resp.op = "update" /\ resp.fault = "none"
  /\ resp.out.kind = "NotFound"
  /\ Removed("transactions", resp.id)
  /\ DOMAIN transactions # {}

\* C22: the users of a page returned by the users list endpoint are in the
\* order of their creation dates, newest first.
C22_NewestFirst ==
  (resp.svc = "users" /\ resp.op = "findAll" /\ resp.http.kind = "ok")
    => \A k, l \in DOMAIN resp.ret :
         k < l => stamps.users[resp.ret[k].id].createdAt
                    >= stamps.users[resp.ret[l].id].createdAt

\* C23: findAll called without arguments returns the page of skip 0 and take
\* 10, and a response of the users list endpoint never has more than 100
\* users.
C23_DefaultsAndMaximum ==
  (resp.svc = "users" /\ resp.op = "findAll" /\ resp.out = Ok)
    => /\ resp.arg = NoArg
            => Len(resp.ret) = PageLen(Cardinality(DOMAIN users), 0, 10)
       /\ resp.http.kind = "ok" => Len(resp.ret) <= MaxPageSize

\* C24: update(id, ...) and remove(id) of the users, categories and
\* transactions services issue the store's update or delete only after their
\* findOne(id) returned a row. A row changes only when the id named one; when
\* the id names no row, or the check itself fails, the mutation call is not
\* issued: nothing changes and a failure injected into the mutation call
\* never shows, the outcome is the NotFound (or the failure) of the check.
\* When the check returned a row the mutation call is issued: its failure
\* shows.
C24_MutationAfterExistenceCheck ==
  [][\A svc \in {"users", "categories", "transactions"},
        op \in {"update", "remove"} :
       Called(svc, op)
         => /\ TableOf(svc)' # TableOf(svc)
                 => resp'.id \in DOMAIN TableOf(svc)
            /\ resp'.id \notin DOMAIN TableOf(svc)
                 => /\ AllRowsUnchanged
                    /\ resp'.fault \in {"none", "db", "hash"}
                         => resp'.out.kind = "NotFound"
            /\ resp'.fault = "find"
                 => AllRowsUnchanged /\ resp'.out.kind = "Internal"
            /\ (resp'.fault = "db" /\ resp'.id \in DOMAIN TableOf(svc))
                 => AllRowsUnchanged /\ resp'.out.kind = "Internal"]_vars
\* a remove whose delete call would have failed ended in the NotFound of its
\* check
C24_Witness ==
  /\ resp.svc = "categories" /\ resp.op = "remove" /\ resp.fault = "db"
  /\ resp.id \notin DOMAIN categories
  /\ resp.out.kind = "NotFound"

\* this step is the store call of the suspended update or remove
ResumeStep == pending # NoPending /\ pending' = NoPending

\* C25: the existence check and the mutation of update and remove are two
\* store calls between which other calls run: the mutation of a suspended
\* call is that call's (same service, operation and id), and when a remove
\* served in between has deleted the row, the mutation runs against no row
\* and fails, changing nothing.
C25_CheckThenActNotAtomic ==
  [][ResumeStep
       => /\ resp'.svc = pending.svc /\ resp'.op = pending.op
          /\ resp'.id = pending.id
          /\ pending.id \notin DOMAIN TableOf(pending.svc)
               => /\ Removed(pending.svc, pending.id)
                  /\ resp'.out.kind # "ok"
                  /\ AllRowsUnchanged]_vars
\* a remove of a transaction failed at its delete: another remove had deleted
\* the row after the check
C25_Witness ==
  /\ resp.svc = "transactions" /\ resp.op = "remove" /\ resp.fault = "none"
  /\ Removed("transactions", resp.id)
  /\ resp.out.kind = "Internal"

\* the message of the generic failure of op in svc
GenericFailure(svc, op) ==
  CASE svc = "users" /\ op = "update" -> "Error updating user"
    [] svc = "users" /\ op = "remove" -> "Error deleting user"
    [] svc = "categories" /\ op = "update" -> "Error updating category"
    [] svc = "categories" /\ op = "remove" -> "Error deleting category"
    [] svc = "transactions" /\ op = "update" -> "Error updating transaction"
    [] svc = "transactions" /\ op = "remove" -> "Error deleting transaction"

\* C28: an update or remove of the users, categories or transactions service
\* whose row was deleted between its existence check and its mutation ends
\* with the generic InternalServerErrorException of the operation, not with
\* NotFound, and changes no row; a remove whose row is still there at its
\* delete deletes it, so of two interleaved removes of one row exactly one
\* deletes it.
C28_LosingCallIsStorageFault ==
  [][(ResumeStep /\ resp'.fault = "none")
       => /\ pending.id \notin DOMAIN TableOf(pending.svc)
               => /\ resp'.out = Internal(GenericFailure(pending.svc, pending.op))
                  /\ resp'.out.kind # "NotFound"
                  /\ AllRowsUnchanged
          /\ \A svc \in {"users", "categories", "transactions"}, id \in Ids :
               (/\ pending.svc = svc /\ pending.op = "remove"
                /\ pending.id = id /\ id \in DOMAIN TableOf(svc))
                 => /\ resp'.out = Ok
                    /\ DOMAIN TableOf(svc)' = DOMAIN TableOf(svc) \ {id}]_vars
\* an update of a category lost against a remove of the category
C28_Witness ==
  /\ resp.svc = "categories" /\ resp.op = "update" /\ resp.fault = "none"
  /\ Removed("categories", resp.id)
  /\ resp.out = Internal("Error updating category")
  /\ DOMAIN resp.arg # {}

\* C26: in every reachable state every transaction's bankAccountId and
\* categoryId are ids of stored rows and every bank account's userId is the
\* id of a stored user.
C26_ReferentialIntegrity ==
  /\ \A t \in DOMAIN transactions :
       /\ transactions[t].bankAccountId \in DOMAIN bankAccounts
       /\ transactions[t].categoryId \in DOMAIN categories
  /\ \A b \in DOMAIN bankAccounts : bankAccounts[b].userId \in DOMAIN users
\* the remove of a category that a transaction refers to was refused
C26_Witness ==
  /\ resp.svc = "categories" /\ resp.op = "remove" /\ resp.fault = "none"
  /\ resp.out.kind = "Internal"
  /\ Referencing(transactions, "categoryId", resp.id) # {}
  /\ resp.id \in DOMAIN categories

\* C27: TransactionsService.create with a categoryId or a bankAccountId of no
\* stored row fails with InternalServerErrorException 'Error creating
\* transaction' (not with Unprocessable, not with NotFound) and inserts no
\* transaction.
C27_CreateWithMissingReference ==
  [][(/\ Called("transactions", "create")
      /\ \/ resp'.arg.categoryId \notin DOMAIN categories
         \/ resp'.arg.bankAccountId \notin DOMAIN bankAccounts)
       => /\ resp'.out = Internal("Error creating transaction")
          /\ resp'.out.kind \notin {"Unprocessable", "NotFound"}
          /\ resp'.ret = <<>>
          /\ transactions' = transactions
          /\ issued' = issued]_vars
\* a create naming a category that is not stored was refused
C27_Witness ==
  /\ resp.svc = "transactions" /\ resp.op = "create" /\ resp.fault = "none"
  /\ resp.arg.categoryId \notin DOMAIN categories
  /\ resp.arg.bankAccountId \in DOMAIN bankAccounts
  /\ resp.out = Internal("Error creating transaction")

\* the column value the services store for the value v of the field f
StoredValue(f, v) ==
  IF f = "date" THEN ToDate(v)
  ELSE IF f = "password" THEN StoredPassword(rev, v)
  ELSE v

\* C29: two update calls on one existing row whose requests overlap and that
\* supply disjoint sets of fields, both succeeding, both take effect in
\* either order of their store calls: the row ends with the fields of the
\* one and the fields of the other, every other field and every other row as
\* before.
C29_DisjointUpdatesBothApply ==
  [][\A svc \in EntityServices :
       (/\ Called(svc, "update||update")
        /\ resp'.out = Ok /\ Len(resp'.ret) = 2)
         => LET id == resp'.id
                a == resp'.arg[1]
                b == resp'.arg[2]
            IN /\ DOMAIN TableOf(svc)' = DOMAIN TableOf(svc)
               /\ \A f \in DOMAIN TableOf(svc)[id] :
                    TableOf(svc)'[id][f] =
                      (IF f \in DOMAIN a THEN StoredValue(f, a[f])
                       ELSE IF f \in DOMAIN b THEN StoredValue(f, b[f])
                       ELSE TableOf(svc)[id][f])
               /\ \A i \in DOMAIN TableOf(svc) \ {id} :
                    TableOf(svc)'[i] = TableOf(svc)[i]]_vars
\* a transaction got a new date from one call and a new type from the other
C29_Witness ==
  /\ resp.svc = "transactions" /\ resp.op = "update||update"
  /\ resp.out = Ok /\ Len(resp.ret) = 2
  /\ DOMAIN resp.arg[1] = {"date"} /\ DOMAIN resp.arg[2] = {"type"}
  /\ resp.ret[1].type # resp.ret[2].type
  /\ resp.ret[1].date # SeedTransactions[resp.id].date
  /\ transactions[resp.id].date = ToDate(resp.arg[1].date)
  /\ transactions[resp.id].type = resp.arg[2].type

\* C30: for a user who owns a bank account, findByUserId(userId, skip, take),
\* skip 0 and take 10 when not given, returns the rows skip+1..skip+take of
\* the user's transactions in an order by date descending: at most take
\* rows, as many as the user has after skip, newest first, every own
\* transaction left out being one of skip rows no older than the first
\* returned or a row no newer than the last returned.
C30_PageOfOwnNewestFirst ==
  (/\ resp.svc = "transactions" /\ resp.op = "findByUserId"
   /\ resp.fault = "none"
   /\ Referencing(bankAccounts, "userId", resp.arg.userId) # {})
    => LET skip == IF "skip" \in DOMAIN resp.arg THEN resp.arg.skip ELSE 0
           take == IF "take" \in DOMAIN resp.arg THEN resp.arg.take ELSE 10
           own == {t \in DOMAIN transactions :
                     /\ transactions[t].bankAccountId \in DOMAIN bankAccounts
                     /\ bankAccounts[transactions[t].bankAccountId].userId
                          = resp.arg.userId}
           rest == own \ IdsIn(resp.ret)
       IN /\ resp.out = Ok
          /\ Len(resp.ret) <= take
          /\ Len(resp.ret) = PageLen(Cardinality(own), skip, take)
          /\ IdsIn(resp.ret) \subseteq own
          /\ Cardinality(IdsIn(resp.ret)) = Len(resp.ret)
          /\ \A k \in DOMAIN resp.ret :
               resp.ret[k].date = transactions[resp.ret[k].id].date
          /\ \A i, j \in DOMAIN resp.ret :
               i < j => resp.ret[i].date >= resp.ret[j].date
          /\ Len(resp.ret) > 0 =>
               \E before \in SUBSET rest :
                 /\ Cardinality(before) = skip
                 /\ \A t \in before : transactions[t].date >= resp.ret[1].date
                 /\ \A t \in rest \ before :
                      transactions[t].date <= resp.ret[Len(resp.ret)].date
\* a user with eleven transactions asked without skip and take and got ten of
\* both dates, the one left out being of the older date
C30_Witness ==
  /\ resp.svc = "transactions" /\ resp.op = "findByUserId"
  /\ resp.out = Ok
  /\ DOMAIN resp.arg = {"userId"}
  /\ Len(resp.ret) = 10
  /\ resp.ret[1].date > resp.ret[10].date
  /\ LET own == {t \in DOMAIN transactions :
                   bankAccounts[transactions[t].bankAccountId].userId
                     = resp.arg.userId}
     IN /\ Cardinality(own) = 11
        /\ \A t \in own \ IdsIn(resp.ret), k \in DOMAIN resp.ret :
             transactions[t].date <= resp.ret[k].date

====
